---- MODULE Spec2Model ----
(***************************************************************************)
(* koishi-plugin-vrc-activity-calendar: the per-locale activity cache, its  *)
(* update cycle, and the time classifier getCurrentOrNearbyActivities with  *)
(* its parser parseTimeRange (src/lib/index.js).                            *)
(*                                                                         *)
(* Time is counted in minutes.  An instant is day * 1440 + minute-of-day,   *)
(* the local wall clock without daylight-saving shifts.                     *)
(*                                                                         *)
(* A time text (the `date` field of an activity) is modelled by what the    *)
(* two regular expressions of parseTimeRange extract from it:               *)
(*   dt : <<sd, sh, sm, ed, eh, em>>  the groups of the absolute form       *)
(*        "YYYY-MM-DD HH:MM - YYYY-MM-DD HH:MM" (the calendar date is kept  *)
(*        as a day number), or <<>> when that expression does not match;    *)
(*   hm : <<sh, sm, eh, em>>  the groups of the clock form "HH:MM - HH:MM", *)
(*        or <<>> when that expression does not match.                      *)
(* The texts stand for their zero-padded spelling with " - " between the    *)
(* two halves.                                                              *)
(***************************************************************************)
EXTENDS Integers, Sequences, FiniteSets, TLC

VARIABLES
    now,                 \* new Date(): the wall clock, an instant in minutes
    maxActivities,       \* config.maxActivities
    activities,          \* japanActivities / chinaActivities, by locale
    lastUpdateTime,      \* japanLastUpdateTime / chinaLastUpdateTime
    cachedImageBuffer,   \* japanCachedImageBuffer / chinaCachedImageBuffer
    pc,                  \* position of each invocation of update<Locale>Activities
    newActivities,       \* the local newActivities of each invocation
    rendering,           \* the image each invocation's generateCalendarImage works on
    started,             \* update calls made by timers and commands so far
    fetchedAt,           \* history: when the cached list of each locale was fetched
    phase,               \* position of a direct call of a pure function
    rangeArg,            \* argument of a direct call of parseTimeRange
    rangeRet,            \* its return value
    activitiesArg,       \* argument of a direct call of generateCalendarImage
    classified,          \* its displayActivities before the placeholder (line 571)
    limited,             \* its limitedActivities (line 581)
    fetchLocale,         \* locale of a direct call of fetch<Locale>Activities
    fetchPc,             \* its position
    apiGot,              \* what its ctx.http.get ended with
    scrapeGot,           \* what the page of its fetchFromWebpage ended with
    scrapeCalls,         \* how often it has called fetchFromWebpage
    scrapeRet,           \* what its fetchFromWebpage returned
    fetched,             \* its return value
    tick,                \* position of the autoPush timer callback of each locale
    bot,                 \* index in ctx.bots of the bot it is sending to
    sent,                \* how the sends of its latest push ended
    autoPush,            \* config.autoPush: the locales enabled, a target is set; the size of ctx.bots
    repeat,              \* a run of two cycles of one locale on the same fetch result
    browser,             \* the pages of ctx.puppeteer and the call that is using one
    command              \* a vrc活动日本 / vrc活动中国 command: its position and its reply

vars == <<now, maxActivities, activities, lastUpdateTime, cachedImageBuffer,
          pc, newActivities, rendering, started, fetchedAt,
          phase, rangeArg, rangeRet, activitiesArg, classified, limited,
          fetchLocale, fetchPc, apiGot, scrapeGot, scrapeCalls, scrapeRet, fetched,
          tick, bot, sent, autoPush, repeat, browser, command>>

-----------------------------------------------------------------------------
(* Bounds of the model *)

MaxLen == 3          \* longest activity list handed to the classifier
MaxActs == 2         \* largest config.maxActivities tried
MaxDay == 2          \* calendar days 0 .. MaxDay appear in absolute texts
MaxTicks == 1        \* clock advances of the plugin run
MaxCalls == 1        \* update calls made by timers and commands in the plugin run
MaxItems == 2        \* longest list of events an API response or a scraped page holds
MaxBots == 2         \* largest number of bots in ctx.bots
MaxFires == 2        \* firings of the autoPush timers
MaxOpened == 4       \* calls of fetchFromWebpage and generateCalendarImage in a run
MaxCycles == 2       \* update calls in a run of the annotated variant

-----------------------------------------------------------------------------
(* Time and time texts *)

MinutesPerDay == 1440
DefaultMaxActivities == 10

Min(a, b) == IF a <= b THEN a ELSE b

\* new Date(year, month - 1, day, hour, minute): out-of-range hours and
\* minutes carry over into the following hours and days.
Instant(day, hour, minute) == day * MinutesPerDay + hour * 60 + minute

\* now.getHours() * 60 + now.getMinutes()
currentMinutes(nowDate) == nowDate % MinutesPerDay

NoMatch == <<>>

Text(dt, hm) == [dt |-> dt, hm |-> hm]
AbsText(sd, sh, sm, ed, eh, em) == Text(<<sd, sh, sm, ed, eh, em>>, NoMatch)
BareText(sh, sm, eh, em) == Text(NoMatch, <<sh, sm, eh, em>>)
UnknownText == Text(NoMatch, NoMatch)        \* "时间未知", "日期未知", "TBD"

\* The value null and the object { start, end } returned by parseTimeRange.
NoRange == [ok |-> FALSE, start |-> 0, end |-> 0]
Range(s, e) == [ok |-> TRUE, start |-> s, end |-> e]

-----------------------------------------------------------------------------
(* parseTimeRange *)

\* Mutant: the overnight wrap taken only when end < start.
parseClockRange_StrictWrap(hm) ==
    LET start == hm[1] * 60 + hm[2]
        end == hm[3] * 60 + hm[4]
    IN  Range(start, IF end < start THEN end + 24 * 60 ELSE end)

\* The clock form, lines 465-469.
parseClockRange(hm) ==
    LET start == hm[1] * 60 + hm[2]
        end == hm[3] * 60 + hm[4]
    IN  Range(start, IF end <= start THEN end + 24 * 60 ELSE end)

\* Mutant: an absolute range that has ended is given a window like any other.
parseDateTimeRange_KeepsEnded(dt, nowDate) ==
    LET startDate == Instant(dt[1], dt[2], dt[3])
        endDate == Instant(dt[4], dt[5], dt[6])
        startTotalMinutes == dt[2] * 60 + dt[3]
    IN  IF startDate <= nowDate /\ endDate >= nowDate THEN Range(0, 1440)
        ELSE Range(startTotalMinutes, startTotalMinutes + 1440)

\* The absolute form, lines 446-460.
parseDateTimeRange(dt, nowDate) ==
    LET startDate == Instant(dt[1], dt[2], dt[3])
        endDate == Instant(dt[4], dt[5], dt[6])
        startTotalMinutes == dt[2] * 60 + dt[3]
    IN  IF endDate < nowDate THEN NoRange
        ELSE IF startDate <= nowDate /\ endDate >= nowDate THEN Range(0, 1440)
        ELSE Range(startTotalMinutes, startTotalMinutes + 1440)

\* Mutant: the clock form tried before the absolute form.
parseTimeRange_ClockFirst(range, nowDate) ==
    IF range.hm # NoMatch THEN parseClockRange(range.hm)
    ELSE IF range.dt # NoMatch THEN parseDateTimeRange(range.dt, nowDate)
    ELSE NoRange

parseTimeRange(range, nowDate) ==
    IF range.dt # NoMatch THEN parseDateTimeRange(range.dt, nowDate)
    ELSE IF range.hm = NoMatch THEN NoRange
    ELSE parseClockRange(range.hm)

-----------------------------------------------------------------------------
(* The text tests of the filters of getCurrentOrNearbyActivities *)

InvalidDate == 0 - 1

\* new Date("YYYY-MM-DDTHH:MM"): the ISO form is read as local time and is an
\* Invalid Date when the hour or the minute is out of range.
ParseDate(day, hour, minute) ==
    IF hour \in 0..23 /\ minute \in 0..59 THEN Instant(day, hour, minute)
    ELSE InvalidDate

\* (a.date.match(/-/g) || []).length
DashCount(date) ==
    (IF date.dt # NoMatch THEN 5 ELSE 0) + (IF date.hm # NoMatch THEN 1 ELSE 0)

\* a.date.includes('-') && a.date.includes(':') && dashes >= 2
IsDateTimeStyle(date) ==
    /\ DashCount(date) >= 1
    /\ (date.dt # NoMatch \/ date.hm # NoMatch)
    /\ DashCount(date) >= 2

\* a.date.split(' - ').length
SplitCount(date) ==
    1 + (IF date.dt # NoMatch THEN 1 ELSE 0) + (IF date.hm # NoMatch THEN 1 ELSE 0)

\* new Date(a.date.split(' - ')[0].replace(' ', 'T')): the first half of a
\* clock text is "HH:MM", which is no date.
StartDateOf(date) ==
    IF date.dt # NoMatch THEN ParseDate(date.dt[1], date.dt[2], date.dt[3])
    ELSE InvalidDate

\* new Date(parts[1].replace(' ', 'T')) of a text with two parts
EndDateOf(date) ==
    IF date.dt # NoMatch THEN ParseDate(date.dt[4], date.dt[5], date.dt[6])
    ELSE InvalidDate

\* Comparisons with an Invalid Date are false.
DateLE(a, b) == a # InvalidDate /\ b # InvalidDate /\ a <= b
DateLT(a, b) == a # InvalidDate /\ b # InvalidDate /\ a < b

\* Mutant: the upper end of the clock window left out of the ongoing test.
ongoingFilter_OpenEnd(a, nowDate) ==
    LET range == parseTimeRange(a.date, nowDate)
    IN  IF ~range.ok THEN FALSE
        ELSE IF IsDateTimeStyle(a.date)
        THEN IF SplitCount(a.date) = 2
             THEN /\ DateLE(StartDateOf(a.date), nowDate)
                  /\ DateLE(nowDate, EndDateOf(a.date))
             ELSE FALSE
        ELSE currentMinutes(nowDate) >= range.start

\* The filter of `ongoing`, lines 472-491.
ongoingFilter(a, nowDate) ==
    LET range == parseTimeRange(a.date, nowDate)
    IN  IF ~range.ok THEN FALSE
        ELSE IF IsDateTimeStyle(a.date)
        THEN IF SplitCount(a.date) = 2
             THEN /\ DateLE(StartDateOf(a.date), nowDate)
                  /\ DateLE(nowDate, EndDateOf(a.date))
             ELSE FALSE
        ELSE /\ currentMinutes(nowDate) >= range.start
             /\ currentMinutes(nowDate) <= range.end

\* The filter of `future`, lines 497-513.
futureFilter(a, nowDate) ==
    LET range == parseTimeRange(a.date, nowDate)
    IN  IF ~range.ok THEN FALSE
        ELSE IF IsDateTimeStyle(a.date)
        THEN IF SplitCount(a.date) = 2
             THEN DateLT(nowDate, StartDateOf(a.date))
             ELSE FALSE
        ELSE range.start > currentMinutes(nowDate)

\* Mutant: the end of a clock window taken without its overnight wrap.
pastFilter_RawEnd(a, nowDate) ==
    LET range == parseTimeRange(a.date, nowDate)
    IN  IF ~range.ok THEN FALSE
        ELSE IF IsDateTimeStyle(a.date)
        THEN IF SplitCount(a.date) = 2
             THEN DateLT(EndDateOf(a.date), nowDate)
             ELSE FALSE
        ELSE range.end % MinutesPerDay < currentMinutes(nowDate)

\* The filter of `past`, lines 527-543.
pastFilter(a, nowDate) ==
    LET range == parseTimeRange(a.date, nowDate)
    IN  IF ~range.ok THEN FALSE
        ELSE IF IsDateTimeStyle(a.date)
        THEN IF SplitCount(a.date) = 2
             THEN DateLT(EndDateOf(a.date), nowDate)
             ELSE FALSE
        ELSE range.end < currentMinutes(nowDate)

\* The comparator of future.sort, lines 513-525.  A difference with an
\* Invalid Date is NaN, which Array.prototype.sort reads as 0.
futureCompare(a, b, nowDate) ==
    IF IsDateTimeStyle(a.date)
    THEN LET aDate == StartDateOf(a.date)
             bDate == StartDateOf(b.date)
         IN  IF aDate = InvalidDate \/ bDate = InvalidDate THEN 0
             ELSE aDate - bDate
    ELSE parseTimeRange(a.date, nowDate).start - parseTimeRange(b.date, nowDate).start

-----------------------------------------------------------------------------
(* Array.prototype.sort as Node's V8 runs it on arrays shorter than 64:     *)
(* the leading run is found (and reversed when strictly descending), the    *)
(* other elements are placed by binary insertion.                           *)

Reverse(s) == [i \in 1..Len(s) |-> s[Len(s) + 1 - i]]

RECURSIVE RunLength(_, _, _, _)
RunLength(s, k, descending, nowDate) ==
    IF k = Len(s) THEN k
    ELSE LET order == futureCompare(s[k + 1], s[k], nowDate)
         IN  IF (descending /\ order >= 0) \/ (~descending /\ order < 0) THEN k
             ELSE RunLength(s, k + 1, descending, nowDate)

RECURSIVE InsertionPoint(_, _, _, _, _)
InsertionPoint(s, pivot, left, right, nowDate) ==
    IF left >= right THEN left
    ELSE LET mid == left + ((right - left) \div 2)
         IN  IF futureCompare(pivot, s[mid], nowDate) < 0
             THEN InsertionPoint(s, pivot, left, mid, nowDate)
             ELSE InsertionPoint(s, pivot, mid + 1, right, nowDate)

RECURSIVE BinaryInsertionSort(_, _, _)
BinaryInsertionSort(s, start, nowDate) ==
    IF start > Len(s) THEN s
    ELSE LET at == InsertionPoint(s, s[start], 1, start, nowDate)
             placed == SubSeq(s, 1, at - 1) \o <<s[start]>>
                         \o SubSeq(s, at, start - 1) \o SubSeq(s, start + 1, Len(s))
         IN  BinaryInsertionSort(placed, start + 1, nowDate)

sortFuture(s, nowDate) ==
    IF Len(s) < 2 THEN s
    ELSE LET descending == futureCompare(s[2], s[1], nowDate) < 0
             run == RunLength(s, 2, descending, nowDate)
             made == IF descending
                     THEN Reverse(SubSeq(s, 1, run)) \o SubSeq(s, run + 1, Len(s))
                     ELSE s
         IN  BinaryInsertionSort(made, run + 1, nowDate)

-----------------------------------------------------------------------------
(* getCurrentOrNearbyActivities and the selection of generateCalendarImage *)

\* The tags: Ongoing 当前活动, Previous 上一个活动, Next 下一个活动,
\* Upcoming 即将到来, Listing 活动列表, Notice 提示.
Tagged(a, tag) == [title |-> a.title, date |-> a.date, tag |-> tag]
TagAll(s, tag) == [i \in 1..Len(s) |-> Tagged(s[i], tag)]

\* s.slice(0, n) for n >= 0
Slice(s, n) == SubSeq(s, 1, Min(n, Len(s)))

ongoing(acts, nowDate) == SelectSeq(acts, LAMBDA a : ongoingFilter(a, nowDate))
future(acts, nowDate) ==
    sortFuture(SelectSeq(acts, LAMBDA a : futureFilter(a, nowDate)), nowDate)
past(acts, nowDate) == SelectSeq(acts, LAMBDA a : pastFilter(a, nowDate))

\* Mutant: the next activity pushed before the previous one.
previousNext_NextFirst(acts, nowDate) ==
    LET p == past(acts, nowDate)
        f == future(acts, nowDate)
    IN  (IF Len(f) > 0 THEN <<Tagged(f[1], "Next")>> ELSE <<>>)
        \o (IF Len(p) > 0 THEN <<Tagged(p[Len(p)], "Previous")>> ELSE <<>>)

\* Mutant: only the previous activity pushed, the next one never.
previousNext_OnlyPrevious(acts, nowDate) ==
    LET p == past(acts, nowDate)
    IN  IF Len(p) > 0 THEN <<Tagged(p[Len(p)], "Previous")>> ELSE <<>>

\* Lines 545-550: result after the two pushes.
previousNext(acts, nowDate) ==
    LET p == past(acts, nowDate)
        f == future(acts, nowDate)
    IN  (IF Len(p) > 0 THEN <<Tagged(p[Len(p)], "Previous")>> ELSE <<>>)
        \o (IF Len(f) > 0 THEN <<Tagged(f[1], "Next")>> ELSE <<>>)

\* Mutant: the listing fallback keeps only the entries whose time text parses.
getCurrentOrNearbyActivities_ListParsed(acts, nowDate, maxCount) ==
    IF Len(ongoing(acts, nowDate)) > 0 THEN TagAll(ongoing(acts, nowDate), "Ongoing")
    ELSE LET result == previousNext(acts, nowDate)
             parsed == SelectSeq(acts, LAMBDA a : a.date # UnknownText)
         IN  IF Len(result) = 0 /\ Len(acts) > 0
             THEN IF Len(future(acts, nowDate)) > 0
                  THEN TagAll(Slice(future(acts, nowDate), maxCount), "Upcoming")
                  ELSE TagAll(Slice(parsed, maxCount), "Listing")
             ELSE result

\* Lines 472-560.
getCurrentOrNearbyActivities(acts, nowDate, maxCount) ==
    IF Len(ongoing(acts, nowDate)) > 0 THEN TagAll(ongoing(acts, nowDate), "Ongoing")
    ELSE LET result == previousNext(acts, nowDate)
         IN  IF Len(result) = 0 /\ Len(acts) > 0
             THEN IF Len(future(acts, nowDate)) > 0
                  THEN TagAll(Slice(future(acts, nowDate), maxCount), "Upcoming")
                  ELSE TagAll(Slice(acts, maxCount), "Listing")
             ELSE result

\* Mutant: the tag written into the ongoing activities themselves.
afterClassification_TagsInPlace(acts, nowDate, maxCount) ==
    [i \in 1..Len(acts) |->
        IF ongoingFilter(acts[i], nowDate) THEN Tagged(acts[i], "Ongoing") ELSE acts[i]]

\* The array handed to getCurrentOrNearbyActivities as the call leaves it.
\* The filters of lines 472, 493 and 527, the slices and the maps build
\* arrays of their own, the sort of line 513 orders the array its filter
\* returned, and the spreads of lines 549-556 build new objects: no
\* statement of lines 439-581 writes to the array or to one of its elements.
afterClassification(acts, nowDate, maxCount) == acts

\* The entry 暂无活动 of lines 573-579.
Placeholder == [title |-> 0, date |-> UnknownText, tag |-> "Notice"]

\* displayActivities, lines 571-580.
displayActivities(acts, nowDate, maxCount) ==
    LET shown == getCurrentOrNearbyActivities(acts, nowDate, maxCount)
    IN  IF Len(shown) = 0 THEN <<Placeholder>> ELSE shown

\* Mutant: the final cap of line 581 left out.
limitedActivities_NoCap(acts, nowDate, maxCount) ==
    displayActivities(acts, nowDate, maxCount)

\* limitedActivities, line 581.
limitedActivities(acts, nowDate, maxCount) ==
    Slice(displayActivities(acts, nowDate, maxCount), maxCount)

-----------------------------------------------------------------------------
(* Inputs *)

\* Calendar days are numbered: day 1 is the day of the run, day 0 the day
\* before it, day 2 the day after it.

\* Activity lists of at most n entries; the title of an entry is its position
\* in the fetched list.
ActivityLists(texts, n) ==
    UNION { { [i \in 1..k |-> [title |-> i, date |-> f[i]]] : f \in [1..k -> texts] }
            : k \in 0..n }

ClassifyTexts ==
    { UnknownText,
      BareText(6, 0, 7, 0), BareText(9, 0, 10, 0), BareText(11, 0, 13, 0),
      BareText(15, 0, 16, 0), BareText(23, 0, 1, 0),
      AbsText(0, 10, 0, 0, 12, 0),
      AbsText(1, 11, 0, 1, 13, 0),
      AbsText(1, 14, 0, 1, 18, 0),
      AbsText(2, 9, 0, 2, 10, 0) }

ClassifyNows == { Instant(1, 12, 0), Instant(1, 0, 30), Instant(1, 23, 30) }

ParseHours == {0, 1, 11, 12, 23}
ParseMinutes == {0, 30, 59}
ParseClocks == { <<h, m>> : h \in ParseHours, m \in ParseMinutes }
ParseStamps == { <<d, h, m>> : d \in 0..MaxDay, h \in {0, 12, 23}, m \in {0, 30} }

ParseTexts ==
    { BareText(s[1], s[2], e[1], e[2]) : s \in ParseClocks, e \in ParseClocks }
    \cup { AbsText(s[1], s[2], s[3], e[1], e[2], e[3]) : s \in ParseStamps, e \in ParseStamps }
    \cup { Text(<<s[1], s[2], s[3], e[1], e[2], e[3]>>, <<23, 0, 1, 0>>) :
             s \in ParseStamps, e \in {<<MaxDay, 23, 30>>} }
    \cup { UnknownText }

ParseNows == { Instant(1, 12, 0), Instant(1, 0, 30), Instant(1, 23, 30) }

-----------------------------------------------------------------------------
(* The plugin: caches, update cycles *)

Locales == {"japan", "china"}
Callers == {"initial", "timer", "command"}
Calls == Locales \X Callers

NoTime == 0 - 1
NoImage == [ok |-> FALSE, shown |-> <<>>, time |-> NoTime]
Image(shown, time) == [ok |-> TRUE, shown |-> shown, time |-> time]

FetchResults ==
    { <<>>,
      <<[title |-> 1, date |-> BareText(11, 0, 13, 0)], [title |-> 2, date |-> BareText(15, 0, 16, 0)]>>,
      <<[title |-> 1, date |-> BareText(15, 0, 16, 0)]>> }

StartOfRun == Instant(1, 12, 0)

\* Mutant: the cache overwritten by every fetch, empty or not.
replaceOnNonEmpty_Always(old, new) == new

\* Mutant: the fetched events added to the list.
replaceOnNonEmpty_Appends(old, new) == old \o new

\* Lines 894-898 and 912-916.
replaceOnNonEmpty(old, new) == IF Len(new) > 0 THEN new ELSE old

-----------------------------------------------------------------------------
(* The two sources of a locale: fetchJapanActivities, fetchChinaActivities  *)
(* and fetchFromWebpage.                                                    *)
(*                                                                         *)
(* A title or a description is modelled by the set of words it contains,   *)
(* so that text.includes(k) is k \in text and '' is the empty set.  The     *)
(* words of the source are written in Latin letters:                        *)
(*   "Unnamed" 未命名活动   "shukujitsu" 祝日   "kyujitsu" 休日   "rili" 日历     *)
(*   "karenda" カレンダー   "teirei" 定例   "teiki" 定期   "ceshi" 测试          *)
(*   "shichigosan" 七五三   "kinrokansha" 勤労感謝   "seijin" 成人の日          *)
(*   "kenkoku" 建国記念   "shunbun" 春分の日   "showa" 昭和の日                  *)
(*   "kenpo" 憲法記念   "midori" みどりの日   "kodomo" こどもの日                *)
(*   "umi" 海の日   "yama" 山の日   "keiro" 敬老の日   "bunka" 文化の日          *)
(*   "kinrokanshanohi" 勤労感謝の日   "tenno" 天皇誕生日                         *)

NoText == {}
UnnamedTitle == {"Unnamed"}

Includes(text, k) == k \in text

\* The keywords of lines 157-162, of lines 249-250 and of lines 334-338.
JapanNoise == {"shukujitsu", "kyujitsu", "rili", "karenda", "teirei", "teiki"}
ChinaNoise == {"ceshi", "Test"}
invalidKeywords ==
    {"shukujitsu", "kyujitsu", "shichigosan", "kinrokansha", "seijin", "kenkoku",
     "shunbun", "showa", "kenpo", "midori", "kodomo", "umi", "yama", "keiro",
     "bunka", "kinrokanshanohi", "tenno", "rili", "karenda"}

Map(s, F(_)) == [i \in 1..Len(s) |-> F(s[i])]

\* An event of an API response: its summary / title, its status (Google
\* Calendar only; "" when the field is missing), the time text of its rlvrc
\* time fields (UnknownText when they are missing) and the instants of its
\* Google Calendar start.dateTime and end.dateTime (NoTime when missing).

\* Lines 114-132: dateDisplay.  The start is printed with month, day, hour
\* and minute and the end with hour and minute, "MM/DD HH:MM - HH:MM"; the
\* absolute form of parseTimeRange does not match that text and its clock
\* form matches "HH:MM - HH:MM", so the text is one of clock form whose
\* month and day no reader of the text sees.
dateDisplay(start, end) ==
    IF start # NoTime /\ end # NoTime
    THEN BareText(currentMinutes(start) \div 60, start % 60,
                  currentMinutes(end) \div 60, end % 60)
    ELSE UnknownText

\* Lines 114-143: the activity built from an event of the Google Calendar API.
japanActivity(event) ==
    [title |-> IF event.title = NoText THEN UnnamedTitle ELSE event.title,
     date |-> dateDisplay(event.start, event.end),
     description |-> NoText,
     status |-> event.status]

\* Lines 223-241: the activity built from an event of the rlvrc API; it has
\* no status field.
chinaActivity(event) ==
    [title |-> IF event.title = NoText THEN UnnamedTitle ELSE event.title,
     date |-> event.date,
     description |-> NoText,
     status |-> "undefined"]

\* Mutant: the filter of lines 153-163 without its status test.
validJapan_AnyStatus(a) ==
    /\ a.title # NoText
    /\ a.title # UnnamedTitle
    /\ \A k \in JapanNoise : ~Includes(a.title, k)

\* Lines 153-163.
validJapan(a) ==
    /\ a.title # NoText
    /\ a.title # UnnamedTitle
    /\ a.status = "confirmed"
    /\ \A k \in JapanNoise : ~Includes(a.title, k)

\* Lines 246-252.
validChina(a) ==
    /\ a.title # NoText
    /\ a.title # UnnamedTitle
    /\ \A k \in ChinaNoise : ~Includes(a.title, k)
    /\ a.date # UnknownText

Filter(s, Test(_)) == SelectSeq(s, Test)

\* What a request or a page load ended with.  kind is "ok" (for the API: an
\* object with the events under `items` / `Activity`), "array" (the API
\* answered with a bare array), "empty" (a falsy response), "malformed"
\* (any other object), "error" or "timeout"; step is where a page load
\* failed.
NoOutcome == [kind |-> "none", step |-> "none", events |-> <<>>]
Outcome(kind, step, events) == [kind |-> kind, step |-> step, events |-> events]

\* The value a call of fetchFromWebpage settles with.
Resolved(list) == [rejected |-> FALSE, list |-> list]
Rejected == [rejected |-> TRUE, list |-> <<>>]

\* Lines 340-343.
passesInvalidKeywords(a) ==
    \A k \in invalidKeywords : ~Includes(a.title \cup a.description, k)

\* Mutant: fetchFromWebpage without its catch blocks.
fetchFromWebpage_NoCatch(url, outcome) ==
    IF outcome.kind # "ok" THEN Rejected
    ELSE IF url = "rlvrc.cn" THEN Resolved(Filter(outcome.events, passesInvalidKeywords))
    ELSE Resolved(outcome.events)

\* Lines 292-437.  Every failure of the page ends in one of the catch blocks
\* (355, 423, 431) and gives []; the cards of rlvrc.cn go through the keyword
\* filter (line 353), the chips and rows of the vrceve.com iframe are
\* returned as extracted (line 422).
fetchFromWebpage(url, outcome) ==
    IF outcome.kind # "ok" THEN Resolved(<<>>)
    ELSE IF url = "rlvrc.cn" THEN Resolved(Filter(outcome.events, passesInvalidKeywords))
    ELSE Resolved(outcome.events)

\* The page each locale falls back to (lines 103, 183, 284).
fallbackUrl(locale) == IF locale = "japan" THEN "vrceve.com" ELSE "rlvrc.cn"

\* Where a call of fetch<Locale>Activities goes once ctx.http.get has settled:
\* to a return ("done") or to a call of fetchFromWebpage from the try block
\* ("scrapeTry") or from the catch block ("scrapeCatch").
Goes(to, list) == [pc |-> to, list |-> list]

\* Mutant: a failed request answered with [] instead of the fallback.
fetchJapanActivities_NoFallback(outcome) ==
    IF outcome.kind \in {"error", "timeout"} THEN Goes("done", <<>>)
    ELSE IF outcome.kind # "ok" THEN Goes("scrapeTry", <<>>)
    ELSE Goes("done", Filter(Map(outcome.events, japanActivity), validJapan))

\* Lines 85-185 up to the first return.
fetchJapanActivities(outcome) ==
    IF outcome.kind \in {"error", "timeout"} THEN Goes("scrapeCatch", <<>>)
    ELSE IF outcome.kind # "ok" THEN Goes("scrapeTry", <<>>)
    ELSE Goes("done", Filter(Map(outcome.events, japanActivity), validJapan))

\* Lines 187-290 up to the first return.
fetchChinaActivities(outcome) ==
    IF outcome.kind \in {"error", "timeout"} THEN Goes("scrapeCatch", <<>>)
    ELSE IF outcome.kind \in {"empty", "malformed"} THEN Goes("done", <<>>)
    ELSE Goes("done", Filter(Map(outcome.events, chinaActivity), validChina))

\* `return await fetchFromWebpage(...)` at lines 103 and 183: a rejection at
\* line 103 is inside the try block and enters the catch block, one at line
\* 183 leaves the function.
japanFallback(site, result) ==
    IF ~result.rejected THEN Goes("done", result.list)
    ELSE IF site = "scrapeTry" THEN Goes("scrapeCatch", <<>>)
    ELSE Goes("rejected", <<>>)

\* Lines 283-288: the fallback of the China source has a catch of its own.
chinaFallback(site, result) ==
    IF ~result.rejected THEN Goes("done", result.list)
    ELSE Goes("done", <<>>)

\* Mutant: the reply of a locale command without its text listing.
commandReply_NoListing(image, acts, maxCount) ==
    IF image # NoImage THEN [kind |-> "image", shown |-> image.shown]
    ELSE [kind |-> "noData", shown |-> <<>>]

\* Lines 1023-1036 and 1050-1063: what the command of a locale answers with
\* once its update has returned: the cached picture, else the first
\* maxActivities entries of the list as text, else '暂无…活动数据，请稍后重试'.
commandReply(image, acts, maxCount) ==
    IF image # NoImage THEN [kind |-> "image", shown |-> image.shown]
    ELSE IF Len(acts) > 0 THEN [kind |-> "text", shown |-> Slice(acts, maxCount)]
    ELSE [kind |-> "noData", shown |-> <<>>]

PluginIdle ==
    /\ activities = [l \in Locales |-> <<>>]
    /\ lastUpdateTime = [l \in Locales |-> NoTime]
    /\ cachedImageBuffer = [l \in Locales |-> NoImage]
    /\ pc = [c \in Calls |-> "idle"]
    /\ newActivities = [c \in Calls |-> <<>>]
    /\ rendering = [c \in Calls |-> NoImage]
    /\ started = 0
    /\ fetchedAt = [l \in Locales |-> NoTime]

FetchOff ==
    /\ fetchLocale = "japan"
    /\ fetchPc = "off"
    /\ apiGot = NoOutcome
    /\ scrapeGot = NoOutcome
    /\ scrapeCalls = 0
    /\ scrapeRet = <<>>
    /\ fetched = <<>>

fetchVars == <<fetchLocale, fetchPc, apiGot, scrapeGot, scrapeCalls, scrapeRet, fetched>>

TimerOff ==
    /\ tick = [l \in Locales |-> "off"]
    /\ bot = [l \in Locales |-> 0]
    /\ sent = [l \in Locales |-> <<>>]
    /\ autoPush = [target |-> FALSE, bots |-> 0, enabled |-> {}]

timerVars == <<tick, bot, sent, autoPush>>

Repeat(l, result, cycles, afterFirst) ==
    [locale |-> l, result |-> result, cycles |-> cycles, afterFirst |-> afterFirst]

RepeatOff == repeat = Repeat("japan", <<>>, 0, <<>>)

\* A call of fetchFromWebpage or generateCalendarImage: the function, the
\* step it is at (0: no call under way), how the latest call ended, the
\* calls made and the pages of ctx.puppeteer now open.
Browser(fn, at, last, calls, open) ==
    [fn |-> fn, at |-> at, last |-> last, calls |-> calls, open |-> open]

BrowserOff == browser = Browser("fetchFromWebpage", 0, "none", 0, 0)

NoReply == [kind |-> "none", shown |-> <<>>]

\* A command: its locale, its position, whether it has called
\* update<Locale>Activities, and what it returned to its caller.
Command(l, at, updated, reply) ==
    [locale |-> l, at |-> at, updated |-> updated, reply |-> reply]

CommandOff == command = Command("japan", "off", FALSE, NoReply)

HarnessOff ==
    /\ phase = "off"
    /\ rangeArg = UnknownText
    /\ rangeRet = NoRange
    /\ activitiesArg = <<>>
    /\ classified = <<>>
    /\ limited = <<>>
    /\ FetchOff
    /\ TimerOff
    /\ RepeatOff
    /\ BrowserOff
    /\ CommandOff

harnessVars ==
    <<phase, rangeArg, rangeRet, activitiesArg, classified, limited, fetchVars, timerVars,
      repeat, browser, command>>
pluginVars ==
    <<activities, lastUpdateTime, cachedImageBuffer, pc, newActivities, rendering, started,
      fetchedAt>>

\* apply(): the caches are empty and the two initial loads of lines 971-977
\* are waiting for their fetch.
Init ==
    /\ now = StartOfRun
    /\ maxActivities = DefaultMaxActivities
    /\ activities = [l \in Locales |-> <<>>]
    /\ lastUpdateTime = [l \in Locales |-> NoTime]
    /\ cachedImageBuffer = [l \in Locales |-> NoImage]
    /\ pc = [c \in Calls |-> IF c[2] = "initial" THEN "fetch" ELSE "idle"]
    /\ newActivities = [c \in Calls |-> <<>>]
    /\ rendering = [c \in Calls |-> NoImage]
    /\ started = 0
    /\ fetchedAt = [l \in Locales |-> NoTime]
    /\ HarnessOff

\* A timer tick or a command calls update<Locale>Activities, which calls
\* fetch<Locale>Activities and waits.
StartUpdate(c) ==
    /\ c[2] # "initial"
    /\ pc[c] = "idle"
    /\ started < MaxCalls
    /\ started' = started + 1
    /\ pc' = [pc EXCEPT ![c] = "fetch"]
    /\ UNCHANGED <<now, maxActivities, activities, lastUpdateTime, cachedImageBuffer,
                   newActivities, rendering, fetchedAt, harnessVars>>

\* Mutant: the update time advanced, and the picture stamped, only by a
\* fetch that brought events.
FetchReturns_KeepsFetchTime(c, result) ==
    /\ pc[c] = "fetch"
    /\ LET kept == replaceOnNonEmpty(activities[c[1]], result)
           stamp == IF Len(result) > 0 THEN now ELSE lastUpdateTime[c[1]]
       IN  /\ activities' = [activities EXCEPT
                  ![c[1]] = afterClassification(kept, now, maxActivities)]
           /\ rendering' = [rendering EXCEPT
                  ![c] = Image(limitedActivities(kept, now, maxActivities), stamp)]
           /\ lastUpdateTime' = [lastUpdateTime EXCEPT ![c[1]] = stamp]
    /\ newActivities' = [newActivities EXCEPT ![c] = result]
    /\ pc' = [pc EXCEPT ![c] = "render"]
    /\ fetchedAt' = [fetchedAt EXCEPT ![c[1]] = IF Len(result) > 0 THEN now ELSE @]
    /\ UNCHANGED <<now, maxActivities, cachedImageBuffer, started, harnessVars>>

\* The fetch resolves: lines 894-900 up to the first await of
\* generateCalendarImage, which has by then selected what it draws.
FetchReturns(c, result) ==
    /\ pc[c] = "fetch"
    /\ LET kept == replaceOnNonEmpty(activities[c[1]], result)
       IN  /\ activities' = [activities EXCEPT
                  ![c[1]] = afterClassification(kept, now, maxActivities)]
           /\ rendering' = [rendering EXCEPT
                  ![c] = Image(limitedActivities(kept, now, maxActivities), now)]
    /\ lastUpdateTime' = [lastUpdateTime EXCEPT ![c[1]] = now]
    /\ newActivities' = [newActivities EXCEPT ![c] = result]
    /\ pc' = [pc EXCEPT ![c] = "render"]
    /\ fetchedAt' = [fetchedAt EXCEPT ![c[1]] = IF Len(result) > 0 THEN now ELSE @]
    /\ UNCHANGED <<now, maxActivities, cachedImageBuffer, started, harnessVars>>

Finished(c) == IF c[2] = "initial" THEN "done" ELSE "idle"

\* Mutant: one picture variable shared by the locales.
RenderReturns_SharedPicture(c) ==
    /\ pc[c] = "render"
    /\ cachedImageBuffer' = [l \in Locales |-> rendering[c]]
    /\ pc' = [pc EXCEPT ![c] = Finished(c)]
    /\ newActivities' = [newActivities EXCEPT ![c] = <<>>]
    /\ rendering' = [rendering EXCEPT ![c] = NoImage]
    /\ UNCHANGED <<now, maxActivities, activities, lastUpdateTime, started, fetchedAt,
                   harnessVars>>

\* The screenshot resolves: the assignment of line 900.
RenderReturns(c) ==
    /\ pc[c] = "render"
    /\ cachedImageBuffer' = [cachedImageBuffer EXCEPT ![c[1]] = rendering[c]]
    /\ pc' = [pc EXCEPT ![c] = Finished(c)]
    /\ newActivities' = [newActivities EXCEPT ![c] = <<>>]
    /\ rendering' = [rendering EXCEPT ![c] = NoImage]
    /\ UNCHANGED <<now, maxActivities, activities, lastUpdateTime, started, fetchedAt,
                   harnessVars>>

\* Mutant: a failed rendering that also drops the list and the update time.
RenderFails_DropsCache(c) ==
    /\ pc[c] = "render"
    /\ cachedImageBuffer' = [cachedImageBuffer EXCEPT ![c[1]] = NoImage]
    /\ activities' = [activities EXCEPT ![c[1]] = <<>>]
    /\ lastUpdateTime' = [lastUpdateTime EXCEPT ![c[1]] = NoTime]
    /\ pc' = [pc EXCEPT ![c] = Finished(c)]
    /\ newActivities' = [newActivities EXCEPT ![c] = <<>>]
    /\ rendering' = [rendering EXCEPT ![c] = NoImage]
    /\ UNCHANGED <<now, maxActivities, started, fetchedAt, harnessVars>>

\* generateCalendarImage rejects: the catch of lines 900-903 yields null.
RenderFails(c) ==
    /\ pc[c] = "render"
    /\ cachedImageBuffer' = [cachedImageBuffer EXCEPT ![c[1]] = NoImage]
    /\ pc' = [pc EXCEPT ![c] = Finished(c)]
    /\ newActivities' = [newActivities EXCEPT ![c] = <<>>]
    /\ rendering' = [rendering EXCEPT ![c] = NoImage]
    /\ UNCHANGED <<now, maxActivities, activities, lastUpdateTime, started, fetchedAt,
                   harnessVars>>

\* The wall clock advances.
Tick ==
    /\ now < StartOfRun + MaxTicks * 120
    /\ now' = now + 120
    /\ UNCHANGED <<maxActivities, pluginVars, harnessVars>>

Next ==
    \/ \E c \in Calls : StartUpdate(c)
    \/ \E c \in Calls, result \in FetchResults : FetchReturns(c, result)
    \/ \E c \in Calls : RenderReturns(c)
    \/ \E c \in Calls : RenderFails(c)
    \/ Tick

Spec == Init /\ [][Next]_vars

-----------------------------------------------------------------------------
(* parseTimeRange called on its own *)

InitParse ==
    /\ now \in ParseNows
    /\ maxActivities = 1
    /\ PluginIdle
    /\ phase = "ready"
    /\ rangeArg \in ParseTexts
    /\ rangeRet = NoRange
    /\ activitiesArg = <<>>
    /\ classified = <<>>
    /\ limited = <<>>
    /\ FetchOff
    /\ TimerOff
    /\ RepeatOff
    /\ BrowserOff
    /\ CommandOff

CallParse ==
    /\ phase = "ready"
    /\ phase' = "done"
    /\ rangeRet' = parseTimeRange(rangeArg, now)
    /\ UNCHANGED <<now, maxActivities, pluginVars, rangeArg, activitiesArg, classified,
                   limited, fetchVars, timerVars, repeat, browser, command>>

NextParse == CallParse

SpecParse == InitParse /\ [][NextParse]_vars

-----------------------------------------------------------------------------
(* The selection of generateCalendarImage called on its own *)

InitClassify ==
    /\ now \in ClassifyNows
    /\ maxActivities \in 1..MaxActs
    /\ PluginIdle
    /\ phase = "ready"
    /\ rangeArg = UnknownText
    /\ rangeRet = NoRange
    /\ activitiesArg \in ActivityLists(ClassifyTexts, MaxLen)
    /\ classified = <<>>
    /\ limited = <<>>
    /\ FetchOff
    /\ TimerOff
    /\ RepeatOff
    /\ BrowserOff
    /\ CommandOff

CallClassify ==
    /\ phase = "ready"
    /\ phase' = "done"
    /\ classified' = getCurrentOrNearbyActivities(activitiesArg, now, maxActivities)
    /\ limited' = limitedActivities(activitiesArg, now, maxActivities)
    /\ activitiesArg' = afterClassification(activitiesArg, now, maxActivities)
    /\ UNCHANGED <<now, maxActivities, pluginVars, rangeArg, rangeRet,
                   fetchVars, timerVars, repeat, browser, command>>

NextClassify == CallClassify

SpecClassify == InitClassify /\ [][NextClassify]_vars

-----------------------------------------------------------------------------
(* Direct calls of fetchJapanActivities and fetchChinaActivities on drawn   *)
(* outcomes of the request and of the page                                  *)

Event(title, status, date, start, end) ==
    [title |-> title, status |-> status, date |-> date, start |-> start, end |-> end]

EveningStart == Instant(1, 20, 0)
EveningEnd == Instant(1, 22, 0)
EveningText == BareText(20, 0, 22, 0)

\* Events an API answers with: a plain one, a cancelled one, a holiday entry,
\* one without a title, a test entry and one without time fields.
ApiEvents ==
    {Event({"Meetup"}, "confirmed", EveningText, EveningStart, EveningEnd),
     Event({"Meetup"}, "cancelled", EveningText, EveningStart, EveningEnd),
     Event({"Meetup", "shukujitsu"}, "confirmed", EveningText, EveningStart, EveningEnd),
     Event(NoText, "confirmed", EveningText, EveningStart, EveningEnd),
     Event({"Meetup", "Test"}, "", EveningText, EveningStart, EveningEnd),
     Event({"Meetup"}, "", UnknownText, NoTime, NoTime)}

Scraped(title, description, date) ==
    [title |-> title, date |-> date, description |-> description]

\* Records a page gives: a plain one, one with a keyword in its description
\* and one with a keyword in its title.
PageRecords ==
    {Scraped({"Meetup"}, NoText, BareText(20, 0, 22, 0)),
     Scraped({"Meetup"}, {"Meetup", "shukujitsu"}, BareText(20, 0, 22, 0)),
     Scraped({"karenda"}, NoText, UnknownText)}

ListsOf(S, n) == UNION {[1..k -> S] : k \in 0..n}

ApiOutcomes ==
    {Outcome(k, "get", <<>>) : k \in {"error", "timeout", "empty", "malformed"}}
    \cup {Outcome(k, "get", l) : k \in {"ok", "array"}, l \in ListsOf(ApiEvents, MaxItems)}

\* ctx.puppeteer.page(), page.goto, waitForSelector('body') and the
\* extraction of the cards or chips.
ScrapeSteps == {"page", "goto", "body", "extract"}

PageOutcomes ==
    {Outcome(k, st, <<>>) : k \in {"error", "timeout"}, st \in ScrapeSteps}
    \cup {Outcome("ok", "extract", l) : l \in ListsOf(PageRecords, MaxItems)}

InitFetch ==
    /\ now = StartOfRun
    /\ maxActivities = DefaultMaxActivities
    /\ PluginIdle
    /\ phase = "off"
    /\ rangeArg = UnknownText
    /\ rangeRet = NoRange
    /\ activitiesArg = <<>>
    /\ classified = <<>>
    /\ limited = <<>>
    /\ fetchLocale \in Locales
    /\ fetchPc = "api"
    /\ apiGot = NoOutcome
    /\ scrapeGot = NoOutcome
    /\ scrapeCalls = 0
    /\ scrapeRet = <<>>
    /\ fetched = <<>>
    /\ TimerOff
    /\ RepeatOff
    /\ BrowserOff
    /\ CommandOff

fetchFixed ==
    <<now, maxActivities, pluginVars, phase, rangeArg, rangeRet, activitiesArg,
      classified, limited, fetchLocale, timerVars, repeat, browser, command>>

\* ctx.http.get settles (lines 91 and 191), and the function runs to its
\* return or to its call of fetchFromWebpage.
HttpReturns(outcome) ==
    /\ fetchPc = "api"
    /\ LET go == IF fetchLocale = "japan" THEN fetchJapanActivities(outcome)
                 ELSE fetchChinaActivities(outcome)
       IN  /\ fetchPc' = go.pc
           /\ fetched' = go.list
           /\ scrapeCalls' = IF go.pc = "done" THEN scrapeCalls ELSE scrapeCalls + 1
    /\ apiGot' = outcome
    /\ UNCHANGED <<fetchFixed, scrapeGot, scrapeRet>>

\* The page of fetchFromWebpage settles, fetchFromWebpage returns and the
\* caller returns its result, or handles its rejection.
PageReturns(outcome) ==
    /\ fetchPc \in {"scrapeTry", "scrapeCatch"}
    /\ LET result == fetchFromWebpage(fallbackUrl(fetchLocale), outcome)
           go == IF fetchLocale = "japan" THEN japanFallback(fetchPc, result)
                 ELSE chinaFallback(fetchPc, result)
       IN  /\ fetchPc' = go.pc
           /\ fetched' = go.list
           /\ scrapeRet' = result.list
           /\ scrapeCalls' = IF go.pc = "scrapeCatch" THEN scrapeCalls + 1 ELSE scrapeCalls
    /\ scrapeGot' = outcome
    /\ UNCHANGED <<fetchFixed, apiGot>>

NextFetch ==
    \/ \E outcome \in ApiOutcomes : HttpReturns(outcome)
    \/ \E outcome \in PageOutcomes : PageReturns(outcome)

SpecFetch == InitFetch /\ [][NextFetch]_vars

-----------------------------------------------------------------------------
(* The autoPush timers of lines 927-969, from a state in which the initial  *)
(* loads have come back with nothing.  A timer is set for a locale only     *)
(* when config.autoPush.<locale>.enabled (lines 927, 949); the tick of a    *)
(* locale without timer is "none".                                          *)

TimerCalls == Locales \X {"timer"}
FirstFire == StartOfRun + 120

\* After a callback's bot.sendMessage has settled, for the bot at `index` of
\* `count`.
After(to, index) == [tick |-> to, bot |-> index]

\* Mutant: a rejected send that ends the push.
sendSettles_StopsOnFailure(ok, index, count) ==
    IF ok /\ index < count THEN After("sending", index + 1) ELSE After("waiting", 0)

\* Mutant: a rejected send that leaves the callback.
sendSettles_Uncaught(ok, index, count) ==
    IF ~ok THEN After("uncaught", index)
    ELSE IF index < count THEN After("sending", index + 1)
    ELSE After("waiting", 0)

\* Lines 933-941: a rejected send is caught inside the loop (line 938), which
\* goes on with the next bot.
sendSettles(ok, index, count) ==
    IF index < count THEN After("sending", index + 1) ELSE After("waiting", 0)

InitTimer ==
    /\ now = FirstFire
    /\ maxActivities = DefaultMaxActivities
    /\ activities = [l \in Locales |-> <<>>]
    /\ lastUpdateTime = [l \in Locales |-> StartOfRun]
    /\ cachedImageBuffer = [l \in Locales |-> Image(<<Placeholder>>, StartOfRun)]
    /\ pc = [c \in Calls |-> IF c[2] = "initial" THEN "done" ELSE "idle"]
    /\ newActivities = [c \in Calls |-> <<>>]
    /\ rendering = [c \in Calls |-> NoImage]
    /\ started = 0
    /\ fetchedAt = [l \in Locales |-> NoTime]
    /\ phase = "off"
    /\ rangeArg = UnknownText
    /\ rangeRet = NoRange
    /\ activitiesArg = <<>>
    /\ classified = <<>>
    /\ limited = <<>>
    /\ FetchOff
    /\ autoPush \in [target : BOOLEAN, bots : 0..MaxBots, enabled : SUBSET Locales]
    /\ tick = [l \in Locales |-> IF l \in autoPush.enabled THEN "waiting" ELSE "none"]
    /\ bot = [l \in Locales |-> 0]
    /\ sent = [l \in Locales |-> <<>>]
    /\ RepeatOff
    /\ BrowserOff
    /\ CommandOff

timerFixed ==
    <<now, maxActivities, phase, rangeArg, rangeRet, activitiesArg, classified, limited,
      fetchVars, autoPush, repeat, browser, command>>

\* The interval of a locale fires: the callback calls update<Locale>Activities
\* (lines 930, 952), which calls the fetch and waits.
TimerFires(l) ==
    /\ tick[l] = "waiting"
    /\ pc[<<l, "timer">>] = "idle"
    /\ started < MaxFires
    /\ started' = started + 1
    /\ pc' = [pc EXCEPT ![<<l, "timer">>] = "fetch"]
    /\ tick' = [tick EXCEPT ![l] = "updating"]
    /\ UNCHANGED <<timerFixed, activities, lastUpdateTime, cachedImageBuffer,
                   newActivities, rendering, fetchedAt, bot, sent>>

\* The update has returned: lines 931-933, the callback starts the push when
\* there is a picture and a target, and is finished otherwise.
TimerResumes(l) ==
    /\ tick[l] = "updating"
    /\ pc[<<l, "timer">>] = "idle"
    /\ IF cachedImageBuffer[l] # NoImage /\ autoPush.target /\ autoPush.bots > 0
       THEN /\ tick' = [tick EXCEPT ![l] = "sending"]
            /\ bot' = [bot EXCEPT ![l] = 1]
            /\ sent' = [sent EXCEPT ![l] = <<>>]
       ELSE /\ tick' = [tick EXCEPT ![l] = "waiting"]
            /\ UNCHANGED <<bot, sent>>
    /\ UNCHANGED <<timerFixed, pluginVars>>

\* bot.sendMessage settles, with the message sent (ok) or with a rejection.
SendSettles(l, ok) ==
    /\ tick[l] = "sending"
    /\ LET go == sendSettles(ok, bot[l], autoPush.bots)
       IN  /\ tick' = [tick EXCEPT ![l] = go.tick]
           /\ bot' = [bot EXCEPT ![l] = go.bot]
    /\ sent' = [sent EXCEPT ![l] = Append(@, ok)]
    /\ UNCHANGED <<timerFixed, pluginVars>>

NextTimer ==
    \/ \E l \in Locales : TimerFires(l)
    \/ \E c \in TimerCalls, result \in FetchResults : FetchReturns(c, result)
    \/ \E c \in TimerCalls : RenderReturns(c)
    \/ \E c \in TimerCalls : RenderFails(c)
    \/ \E l \in Locales : TimerResumes(l)
    \/ \E l \in Locales, ok \in BOOLEAN : SendSettles(l, ok)

SpecTimer == InitTimer /\ [][NextTimer]_vars

-----------------------------------------------------------------------------
(* Two commands of one locale, one after the other, whose fetches return    *)
(* the same result                                                          *)

InitRepeat ==
    /\ now = StartOfRun
    /\ maxActivities = DefaultMaxActivities
    /\ activities = [l \in Locales |-> <<>>]
    /\ lastUpdateTime = [l \in Locales |-> NoTime]
    /\ cachedImageBuffer = [l \in Locales |-> NoImage]
    /\ pc = [c \in Calls |-> IF c[2] = "initial" THEN "fetch" ELSE "idle"]
    /\ newActivities = [c \in Calls |-> <<>>]
    /\ rendering = [c \in Calls |-> NoImage]
    /\ started = 0
    /\ fetchedAt = [l \in Locales |-> NoTime]
    /\ phase = "off"
    /\ rangeArg = UnknownText
    /\ rangeRet = NoRange
    /\ activitiesArg = <<>>
    /\ classified = <<>>
    /\ limited = <<>>
    /\ FetchOff
    /\ TimerOff
    /\ repeat \in {Repeat(l, result, 0, <<>>) : l \in Locales, result \in FetchResults}
    /\ BrowserOff
    /\ CommandOff

RepeatCall == <<repeat.locale, "command">>

\* The command of the locale is given while no cycle of the locale is in
\* flight, and calls update<Locale>Activities; the list the first command
\* left is noted when the second one starts.
RepeatStarts ==
    /\ repeat.cycles < 2
    /\ \A c \in Calls : c[1] = repeat.locale => pc[c] \in {"idle", "done"}
    /\ pc' = [pc EXCEPT ![RepeatCall] = "fetch"]
    /\ repeat' = Repeat(repeat.locale, repeat.result, repeat.cycles + 1,
                        IF repeat.cycles = 1 THEN activities[repeat.locale]
                        ELSE repeat.afterFirst)
    /\ UNCHANGED <<now, maxActivities, activities, lastUpdateTime, cachedImageBuffer,
                   newActivities, rendering, started, fetchedAt,
                   phase, rangeArg, rangeRet, activitiesArg, classified, limited,
                   fetchVars, timerVars, browser, command>>

NextRepeat ==
    \/ RepeatStarts
    \/ \E l \in Locales, result \in FetchResults : FetchReturns(<<l, "initial">>, result)
    \/ FetchReturns(RepeatCall, repeat.result)
    \/ \E c \in Calls : RenderReturns(c)
    \/ \E c \in Calls : RenderFails(c)
    \/ Tick

SpecRepeat == InitRepeat /\ [][NextRepeat]_vars

-----------------------------------------------------------------------------
(* A Japan update on an answer of the Google Calendar API whose events all  *)
(* pass the filter: fetchJapanActivities builds the activities, and the     *)
(* selection of generateCalendarImage classifies them                       *)

\* event.summary of the event at a position of the answer.
SummaryAt(i) == {"Meetup", IF i = 1 THEN "One" ELSE IF i = 2 THEN "Two" ELSE "More"}

\* Start and end instants of an event: a midday, an afternoon and an
\* over-midnight event of yesterday (day 0), of today or of a later day.
JapanWindows ==
    UNION {{<<Instant(d, 11, 0), Instant(d, 13, 0)>>,
            <<Instant(d, 15, 0), Instant(d, 16, 0)>>,
            <<Instant(d, 23, 0), Instant(d + 1, 1, 0)>>} : d \in 0..MaxDay}

JapanAnswers ==
    UNION {{[i \in 1..k |-> Event(SummaryAt(i), "confirmed", UnknownText, w[i][1], w[i][2])] :
               w \in [1..k -> JapanWindows]} : k \in 1..MaxItems}

JapanOutcomes == {Outcome("ok", "get", l) : l \in JapanAnswers}

InitJapan ==
    /\ now \in {Instant(1, 12, 0), Instant(1, 0, 30)}
    /\ maxActivities = DefaultMaxActivities
    /\ PluginIdle
    /\ phase = "off"
    /\ rangeArg = UnknownText
    /\ rangeRet = NoRange
    /\ activitiesArg = <<>>
    /\ classified = <<>>
    /\ limited = <<>>
    /\ fetchLocale = "japan"
    /\ fetchPc = "api"
    /\ apiGot = NoOutcome
    /\ scrapeGot = NoOutcome
    /\ scrapeCalls = 0
    /\ scrapeRet = <<>>
    /\ fetched = <<>>
    /\ TimerOff
    /\ RepeatOff
    /\ BrowserOff
    /\ CommandOff

\* updateJapanActivities hands the list fetchJapanActivities returned to
\* generateCalendarImage (lines 894-900), which selects what it draws
\* (lines 563-581).
ClassifyFetched ==
    /\ fetchPc = "done"
    /\ phase = "off"
    /\ phase' = "done"
    /\ activitiesArg' = afterClassification(fetched, now, maxActivities)
    /\ classified' = getCurrentOrNearbyActivities(fetched, now, maxActivities)
    /\ limited' = limitedActivities(fetched, now, maxActivities)
    /\ UNCHANGED <<now, maxActivities, pluginVars, rangeArg, rangeRet, fetchVars,
                   timerVars, repeat, browser, command>>

NextJapan ==
    \/ \E outcome \in JapanOutcomes : HttpReturns(outcome)
    \/ ClassifyFetched

SpecJapan == InitJapan /\ [][NextJapan]_vars

-----------------------------------------------------------------------------
(* The pages of ctx.puppeteer: calls of fetchFromWebpage and of             *)
(* generateCalendarImage, one after the other, each step of which resolves  *)
(* or rejects                                                               *)

PageUsers == {"fetchFromWebpage", "generateCalendarImage"}

\* The awaited steps of a call up to its page.close(): lines 295-421 and
\* lines 883-886.
pageSteps(fn) ==
    IF fn = "fetchFromWebpage" THEN <<"page", "goto", "body", "extract">>
    ELSE <<"page", "setViewport", "setContent", "screenshot">>

\* Whether a rejected step still reaches page.close(): the finally of lines
\* 434-436 does, for a page that was opened; lines 883-888 have no handler
\* and the close of line 887 is skipped.
closesOnFailure(fn) == fn = "fetchFromWebpage"

\* How a call ends for its caller when a step rejects: the catch of lines
\* 431-433 returns [], generateCalendarImage rejects.
endsFailed(fn) == IF fn = "fetchFromWebpage" THEN "returned" ELSE "rejected"

InitPages ==
    /\ now = StartOfRun
    /\ maxActivities = DefaultMaxActivities
    /\ PluginIdle
    /\ phase = "off"
    /\ rangeArg = UnknownText
    /\ rangeRet = NoRange
    /\ activitiesArg = <<>>
    /\ classified = <<>>
    /\ limited = <<>>
    /\ FetchOff
    /\ TimerOff
    /\ RepeatOff
    /\ BrowserOff
    /\ CommandOff

pagesFixed ==
    <<now, maxActivities, pluginVars, phase, rangeArg, rangeRet, activitiesArg,
      classified, limited, fetchVars, timerVars, repeat, command>>

\* fetchFromWebpage or generateCalendarImage is called and awaits
\* ctx.puppeteer.page().
PageCall(fn) ==
    /\ browser.at = 0
    /\ browser.calls < MaxOpened
    /\ browser' = Browser(fn, 1, "none", browser.calls + 1, browser.open)
    /\ UNCHANGED pagesFixed

\* The awaited step resolves: the page is open once ctx.puppeteer.page()
\* has resolved, and is closed (lines 435, 887) after the last step.
PageStepResolves ==
    /\ browser.at > 0
    /\ LET steps == pageSteps(browser.fn)
           open == IF steps[browser.at] = "page" THEN browser.open + 1 ELSE browser.open
       IN  browser' =
              IF browser.at < Len(steps)
              THEN Browser(browser.fn, browser.at + 1, "none", browser.calls, open)
              ELSE Browser(browser.fn, 0, "returned", browser.calls, open - 1)
    /\ UNCHANGED pagesFixed

\* The awaited step rejects (navigation error, selector timeout, extraction
\* error, setContent or screenshot failure).
PageStepRejects ==
    /\ browser.at > 0
    /\ LET opened == pageSteps(browser.fn)[browser.at] # "page"
           open == IF opened /\ closesOnFailure(browser.fn) THEN browser.open - 1
                   ELSE browser.open
       IN  browser' = Browser(browser.fn, 0, endsFailed(browser.fn), browser.calls, open)
    /\ UNCHANGED pagesFixed

NextPages ==
    \/ \E fn \in PageUsers : PageCall(fn)
    \/ PageStepResolves
    \/ PageStepRejects

SpecPages == InitPages /\ [][NextPages]_vars

-----------------------------------------------------------------------------
(* The commands vrc活动日本 and vrc活动中国 (lines 1016-1068), given while  *)
(* the initial loads are under way or done                                  *)

\* The return of the catch of lines 1037-1040 and 1064-1067.
failedReply == [kind |-> "failed", shown |-> <<>>]

CommandCall == <<command.locale, "command">>

commandFixed ==
    <<phase, rangeArg, rangeRet, activitiesArg, classified, limited, fetchVars,
      timerVars, repeat, browser>>

\* The command of a locale is given: its action enters its try block and
\* awaits session.send of the notice 正在获取...活动信息 (lines 1020, 1047).
CommandGiven(l) ==
    /\ command.at \in {"off", "replied"}
    /\ started < MaxCalls
    /\ started' = started + 1
    /\ command' = Command(l, "notice", FALSE, NoReply)
    /\ UNCHANGED <<now, maxActivities, activities, lastUpdateTime, cachedImageBuffer,
                   pc, newActivities, rendering, fetchedAt, commandFixed>>

\* session.send settles.  Resolved: the action calls update<Locale>Activities
\* (lines 1021, 1048), which calls the fetch and waits.  Rejected: the catch
\* returns the failure text, and the update is not called.
NoticeSettles(ok) ==
    /\ command.at = "notice"
    /\ IF ok
       THEN /\ pc' = [pc EXCEPT ![CommandCall] = "fetch"]
            /\ command' = Command(command.locale, "update", TRUE, NoReply)
       ELSE /\ pc' = pc
            /\ command' = Command(command.locale, "replied", FALSE, failedReply)
    /\ UNCHANGED <<now, maxActivities, activities, lastUpdateTime, cachedImageBuffer,
                   newActivities, rendering, started, fetchedAt, commandFixed>>

\* update<Locale>Activities has returned: the action returns the picture,
\* the listing or the 'no data' text (lines 1023-1036, 1050-1063).
CommandReplies ==
    /\ command.at = "update"
    /\ pc[CommandCall] = "idle"
    /\ command' = Command(command.locale, "replied", TRUE,
                          commandReply(cachedImageBuffer[command.locale],
                                       activities[command.locale], maxActivities))
    /\ UNCHANGED <<now, maxActivities, pluginVars, commandFixed>>

NextCommand ==
    \/ \E l \in Locales : CommandGiven(l)
    \/ \E ok \in BOOLEAN : NoticeSettles(ok)
    \/ \E c \in Calls, result \in FetchResults : FetchReturns(c, result)
    \/ \E c \in Calls : RenderReturns(c)
    \/ \E c \in Calls : RenderFails(c)
    \/ CommandReplies

SpecCommand == Init /\ [][NextCommand]_vars

-----------------------------------------------------------------------------
(* The annotated variant of the plugin, src/unnamed/part_001: its update    *)
(* functions (lines 285-306), called by its timers (lines 311-329) and its  *)
(* commands (lines 336-355); it makes no initial loads                      *)

VariantCalls == Locales \X {"timer", "command"}

\* part_001 lines 286 and 298: the fetched list is assigned as it comes.
variantActivities(old, new) == new

\* part_001 lines 288-292 and 300-304: generateCalendarImage is given
\* activities.slice(0, config.maxActivities) and draws each entry with the
\* tag 活动 (line 261), the classifier not being called.
variantDrawn(acts, maxCount) == TagAll(Slice(acts, maxCount), "Activity")

InitVariant ==
    /\ now = StartOfRun
    /\ maxActivities = DefaultMaxActivities
    /\ PluginIdle
    /\ HarnessOff

\* A timer or a command calls update<Locale>Activities, which awaits the
\* fetch.
VariantStart(c) ==
    /\ pc[c] = "idle"
    /\ started < MaxCycles
    /\ started' = started + 1
    /\ pc' = [pc EXCEPT ![c] = "fetch"]
    /\ UNCHANGED <<now, maxActivities, activities, lastUpdateTime, cachedImageBuffer,
                   newActivities, rendering, fetchedAt, harnessVars>>

\* The fetch resolves, with [] when the scraping failed (part_001 lines
\* 200-203): lines 286-288 up to the first await of generateCalendarImage.
VariantFetchReturns(c, result) ==
    /\ pc[c] = "fetch"
    /\ LET list == variantActivities(activities[c[1]], result)
       IN  /\ activities' = [activities EXCEPT ![c[1]] = list]
           /\ rendering' = [rendering EXCEPT
                  ![c] = Image(variantDrawn(list, maxActivities), now)]
    /\ lastUpdateTime' = [lastUpdateTime EXCEPT ![c[1]] = now]
    /\ newActivities' = [newActivities EXCEPT ![c] = result]
    /\ fetchedAt' = [fetchedAt EXCEPT ![c[1]] = now]
    /\ pc' = [pc EXCEPT ![c] = "render"]
    /\ UNCHANGED <<now, maxActivities, cachedImageBuffer, started, harnessVars>>

\* The screenshot resolves: the assignment of part_001 lines 288 and 300.
VariantRenderReturns(c) ==
    /\ pc[c] = "render"
    /\ cachedImageBuffer' = [cachedImageBuffer EXCEPT ![c[1]] = rendering[c]]
    /\ pc' = [pc EXCEPT ![c] = "idle"]
    /\ newActivities' = [newActivities EXCEPT ![c] = <<>>]
    /\ rendering' = [rendering EXCEPT ![c] = NoImage]
    /\ UNCHANGED <<now, maxActivities, activities, lastUpdateTime, started, fetchedAt,
                   harnessVars>>

\* generateCalendarImage rejects: the update function has no handler and
\* rejects before its assignment of the picture.
VariantRenderFails(c) ==
    /\ pc[c] = "render"
    /\ pc' = [pc EXCEPT ![c] = "idle"]
    /\ newActivities' = [newActivities EXCEPT ![c] = <<>>]
    /\ rendering' = [rendering EXCEPT ![c] = NoImage]
    /\ UNCHANGED <<now, maxActivities, activities, lastUpdateTime, cachedImageBuffer,
                   started, fetchedAt, harnessVars>>

NextVariant ==
    \/ \E c \in VariantCalls : VariantStart(c)
    \/ \E c \in VariantCalls, result \in FetchResults : VariantFetchReturns(c, result)
    \/ \E c \in VariantCalls : VariantRenderReturns(c)
    \/ \E c \in VariantCalls : VariantRenderFails(c)
    \/ Tick

SpecVariant == InitVariant /\ [][NextVariant]_vars

-----------------------------------------------------------------------------
(* The windows of the specification, sections 3 and 4, for texts of one     *)
(* form: an absolute text has its two instants, and is no window once its   *)
(* end lies before now (4.1 item 1); a clock text has its minutes of the    *)
(* current day, the end moved forward one day when it does not exceed the   *)
(* start.                                                                   *)

IsAbs(a) == a.date.dt # NoMatch /\ a.date.hm = NoMatch
IsClock(a) == a.date.dt = NoMatch /\ a.date.hm # NoMatch
IsUnparseable(a) == a.date.dt = NoMatch /\ a.date.hm = NoMatch

ClockStart(a) == 60 * a.date.hm[1] + a.date.hm[2]
ClockEnd(a) ==
    LET e == 60 * a.date.hm[3] + a.date.hm[4]
    IN  IF e > ClockStart(a) THEN e ELSE e + 1440
AbsStart(a) == 1440 * a.date.dt[1] + 60 * a.date.dt[2] + a.date.dt[3]
AbsEnd(a) == 1440 * a.date.dt[4] + 60 * a.date.dt[5] + a.date.dt[6]
MinuteOfDay(t) == t % 1440
DayStart(t) == t - (t % 1440)

WindowOngoing(a, t) ==
    \/ IsAbs(a) /\ AbsStart(a) <= t /\ t <= AbsEnd(a)
    \/ IsClock(a) /\ ClockStart(a) <= MinuteOfDay(t) /\ MinuteOfDay(t) <= ClockEnd(a)

WindowFuture(a, t) ==
    \/ IsAbs(a) /\ AbsStart(a) > t /\ AbsEnd(a) >= t
    \/ IsClock(a) /\ ClockStart(a) > MinuteOfDay(t)

WindowPast(a, t) == IsClock(a) /\ ClockEnd(a) < MinuteOfDay(t)

\* The instant a window starts at, clock windows anchored to the current day.
WindowStart(a, t) == IF IsAbs(a) THEN AbsStart(a) ELSE DayStart(t) + ClockStart(a)

Untagged(s) == [i \in 1..Len(s) |-> [title |-> s[i].title, date |-> s[i].date]]
TagCount(s, tag) == Cardinality({ i \in 1..Len(s) : s[i].tag = tag })
Positions == 1..Len(activitiesArg)
Shown == 1..Len(classified)
AnyOngoing == \E i \in Positions : WindowOngoing(activitiesArg[i], now)
AnyPast == \E i \in Positions : WindowPast(activitiesArg[i], now)
AnyFuture == \E i \in Positions : WindowFuture(activitiesArg[i], now)
Classified == phase = "done"

-----------------------------------------------------------------------------
(* Claims *)

\* C1: when the fetch of an update cycle returns zero events, the steps of
\* that cycle leave the locale's cached list as it was (same elements, same
\* order), and the step that receives the empty result sets the locale's
\* last-update time to the current time.
C1_EmptyFetchKeepsList ==
    [][\A c \in Calls :
          /\ (pc[c] = "fetch" /\ pc'[c] = "render" /\ newActivities'[c] = <<>>)
                => /\ activities'[c[1]] = activities[c[1]]
                   /\ lastUpdateTime'[c[1]] = now'
          /\ (pc[c] = "render" /\ pc'[c] # "render" /\ newActivities[c] = <<>>)
                => activities'[c[1]] = activities[c[1]]]_vars

\* A cycle has received an empty fetch while the cache held a two-entry list.
C1_Witness ==
    \E c \in Calls :
        /\ pc[c] = "render"
        /\ newActivities[c] = <<>>
        /\ Len(activities[c[1]]) = 2
        /\ lastUpdateTime[c[1]] = now
        /\ now > StartOfRun

\* C2: whenever some entry of the input is ongoing, the output is exactly the
\* ongoing entries in input order, each tagged Ongoing, with no Previous or
\* Next entry; with one ongoing entry the output has one element.
C2_OngoingOnly ==
    (Classified /\ AnyOngoing) =>
        /\ Untagged(classified)
             = SelectSeq(activitiesArg, LAMBDA a : WindowOngoing(a, now))
        /\ \A j \in Shown : classified[j].tag = "Ongoing"
        /\ (Cardinality({ i \in Positions : WindowOngoing(activitiesArg[i], now) }) = 1
              => Len(classified) = 1)

\* Two ongoing entries around an entry that is not ongoing.
C2_Witness ==
    /\ Classified
    /\ Len(activitiesArg) = 3
    /\ WindowOngoing(activitiesArg[1], now)
    /\ ~WindowOngoing(activitiesArg[2], now)
    /\ WindowPast(activitiesArg[2], now)
    /\ WindowOngoing(activitiesArg[3], now)
    /\ Len(classified) = 2

C3_Example ==
    << [title |-> 1, date |-> BareText(9, 0, 10, 0)],
       [title |-> 2, date |-> BareText(15, 0, 16, 0)] >>

\* C3: with no ongoing entry and some past or future entry, the output holds
\* at most one Previous and at most one Next, nothing else, Previous first;
\* a past entry ending 10:00 and a future entry starting 15:00 at 12:00 give
\* exactly [past (Previous), future (Next)].
C3_PreviousThenNext ==
    (Classified /\ ~AnyOngoing /\ (AnyPast \/ AnyFuture)) =>
        /\ \A j \in Shown : classified[j].tag \in {"Previous", "Next"}
        /\ TagCount(classified, "Previous") <= 1
        /\ TagCount(classified, "Next") <= 1
        /\ \A j, k \in Shown :
              (classified[j].tag = "Previous" /\ classified[k].tag = "Next") => j < k
        /\ (activitiesArg = C3_Example /\ now = Instant(1, 12, 0))
              => classified = << Tagged(C3_Example[1], "Previous"),
                                 Tagged(C3_Example[2], "Next") >>

C3_Witness ==
    /\ Classified
    /\ activitiesArg = C3_Example
    /\ now = Instant(1, 12, 0)
    /\ Len(classified) = 2

\* C4: the entry tagged Previous is the chronologically last past entry: no
\* past entry of the input has a later window end.
C4_PreviousIsLatestPast ==
    Classified =>
        \A j \in Shown :
            classified[j].tag = "Previous" =>
                \A i \in Positions :
                    WindowPast(activitiesArg[i], now)
                        => ClockEnd(activitiesArg[i]) <= ClockEnd(classified[j])

\* C5: the entry tagged Next is a future entry whose window start is minimal
\* among the future entries, and the first of them in input order among
\* those that start together, for lists of any mix of text forms.
C5_NextIsEarliestFuture ==
    Classified =>
        \A j \in Shown :
            classified[j].tag = "Next" =>
                /\ WindowFuture(classified[j], now)
                /\ \A i \in Positions :
                      WindowFuture(activitiesArg[i], now) =>
                          \/ WindowStart(activitiesArg[i], now) > WindowStart(classified[j], now)
                          \/ /\ WindowStart(activitiesArg[i], now) = WindowStart(classified[j], now)
                             /\ i >= classified[j].title

\* C6: an entry whose time text is unparseable is never tagged Ongoing,
\* Previous, Next or Upcoming; when the list is not empty and no entry is
\* ongoing, past or future, the output is the first maxActivities entries of
\* the input in input order, each tagged Listing.
C6_UnparseableOnlyListed ==
    Classified =>
        /\ \A j \in Shown :
              IsUnparseable(classified[j])
                  => classified[j].tag \notin {"Ongoing", "Previous", "Next", "Upcoming"}
        /\ (Len(activitiesArg) > 0 /\ ~AnyOngoing /\ ~AnyPast /\ ~AnyFuture)
              => /\ Len(classified) = Min(maxActivities, Len(activitiesArg))
                 /\ \A j \in Shown :
                       classified[j] = Tagged(activitiesArg[j], "Listing")

\* A list longer than maxActivities, an unparseable text among its first
\* entries, listed up to the cap.
C6_Witness ==
    /\ Classified
    /\ Len(activitiesArg) > maxActivities
    /\ IsUnparseable(activitiesArg[1])
    /\ \E i \in Positions : ~IsUnparseable(activitiesArg[i])
    /\ Len(classified) = maxActivities
    /\ classified[1] = Tagged(activitiesArg[1], "Listing")

\* C8: the list handed to the renderer is never longer than maxActivities
\* and is the prefix of the classifier's output, in the order of that output,
\* whichever tier (Ongoing, Previous and Next, Upcoming, Listing) produced it.
C8_RendererGetsCappedPrefix ==
    Classified =>
        /\ Len(limited) <= maxActivities
        /\ Len(classified) > 0 =>
              /\ Len(limited) = Min(maxActivities, Len(classified))
              /\ \A j \in 1..Len(limited) : limited[j] = classified[j]

\* More ongoing entries than maxActivities: the renderer gets the first ones.
C8_Witness ==
    /\ Classified
    /\ Len(classified) > maxActivities
    /\ classified[1].tag = "Ongoing"
    /\ Len(limited) = maxActivities
    /\ maxActivities >= 2

Parsed == phase = "done"
IsClockText(t) == t.dt = NoMatch /\ t.hm # NoMatch

\* C9: on a clock range with valid clock times, start = 60*HH1+MM1, end =
\* 60*HH2+MM2 when that exceeds start and 60*HH2+MM2+1440 otherwise, so that
\* end > start and end - start <= 1440; "23:00 - 01:00" gives 1380 and 1500,
\* equal times give a window of 1440 minutes.
C9_ClockRangeWraps ==
    (Parsed /\ IsClockText(rangeArg)) =>
        LET h == rangeArg.hm
            s == 60 * h[1] + h[2]
            e == 60 * h[3] + h[4]
        IN  /\ rangeRet.ok
            /\ rangeRet.start = s
            /\ rangeRet.end = (IF e > s THEN e ELSE e + 1440)
            /\ rangeRet.end > rangeRet.start
            /\ rangeRet.end - rangeRet.start <= 1440
            /\ (h = <<23, 0, 1, 0>> => rangeRet = Range(1380, 1500))
            /\ (e = s => rangeRet.end - rangeRet.start = 1440)

C9_Witness ==
    /\ Parsed
    /\ rangeArg = BareText(23, 0, 1, 0)
    /\ rangeRet = Range(1380, 1500)

\* C10: the absolute form is tried before the clock form; an absolute range
\* gives null when its end lies before now, the full-day window (0, 1440)
\* when start <= now <= end, and otherwise (s, s + 1440) with s the start's
\* minute of the day; a text of neither form gives null.
C10_AbsoluteFormFirst ==
    Parsed =>
        /\ rangeArg.dt # NoMatch =>
              LET d == rangeArg.dt
                  startAt == 1440 * d[1] + 60 * d[2] + d[3]
                  endAt == 1440 * d[4] + 60 * d[5] + d[6]
                  s == 60 * d[2] + d[3]
              IN  /\ endAt < now => rangeRet = NoRange
                  /\ (startAt <= now /\ now <= endAt) => rangeRet = Range(0, 1440)
                  /\ (endAt >= now /\ ~(startAt <= now /\ now <= endAt))
                        => rangeRet = Range(s, s + 1440)
        /\ (rangeArg.dt = NoMatch /\ rangeArg.hm = NoMatch) => rangeRet = NoRange

\* A text in which both forms are found, its absolute range around now.
C10_Witness ==
    /\ Parsed
    /\ rangeArg.dt # NoMatch
    /\ rangeArg.hm # NoMatch
    /\ rangeRet = Range(0, 1440)

-----------------------------------------------------------------------------
(* The sources: claims C11 - C16 *)

\* The response shapes each function reads events from (lines 101, 207-211).
WellFormed(locale) == IF locale = "japan" THEN {"ok"} ELSE {"ok", "array"}
RequestFailed == apiGot.kind \in {"error", "timeout"}
RequestMisshaped ==
    apiGot.kind \in {"empty", "malformed", "array"} \ WellFormed(fetchLocale)
RequestDone == fetchPc # "api"
PageInvoked == scrapeCalls >= 1

\* The title rule of the validity filters as the specification words it.
NoiseOf(locale) ==
    IF locale = "japan" THEN {"shukujitsu", "kyujitsu", "rili", "karenda", "teirei", "teiki"}
    ELSE {"ceshi", "Test"}
TitleValid(locale, a) ==
    /\ a.title # {}
    /\ a.title # {"Unnamed"}
    /\ a.title \cap NoiseOf(locale) = {}

\* The events of a well-formed response that the validity rule keeps.
StructuredKept ==
    {i \in 1..Len(apiGot.events) :
        LET e == apiGot.events[i]
        IN  /\ TitleValid(fetchLocale, e)
            /\ fetchLocale = "japan" => e.status = "confirmed"
            /\ fetchLocale = "china" => e.date # UnknownText}
StructuredNothing ==
    apiGot.kind \notin WellFormed(fetchLocale) \/ StructuredKept = {}
ScrapedNothing == scrapeGot.kind # "ok" \/ scrapeGot.events = <<>>

\* C11: a call of fetchJapanActivities or fetchChinaActivities never rejects,
\* whatever the request and the page end with, and the list it resolves to is
\* empty when the structured source failed or kept nothing and the page, if
\* it was loaded, failed or gave nothing.
C11_NeverRejects ==
    /\ fetchPc # "rejected"
    /\ fetchPc = "done" /\ StructuredNothing /\ (PageInvoked => ScrapedNothing)
           => fetched = <<>>

C11_Witness ==
    /\ fetchPc = "done"
    /\ fetchLocale = "japan"
    /\ apiGot.kind = "timeout"
    /\ scrapeGot.kind = "timeout"
    /\ scrapeGot.step = "goto"
    /\ fetched = <<>>

\* C12: the page is never loaded before the request has settled; when the
\* request raised an error or timed out the page of the locale is loaded
\* exactly once and the call returns what fetchFromWebpage returned.
C12_FailedRequestFallsBack ==
    /\ fetchPc = "api" => scrapeCalls = 0
    /\ RequestDone /\ RequestFailed => scrapeCalls = 1
    /\ fetchPc = "done" /\ RequestFailed => fetched = scrapeRet

C12_Witness ==
    /\ fetchPc = "done"
    /\ apiGot.kind = "error"
    /\ scrapeCalls = 1
    /\ scrapeGot.kind = "ok"
    /\ fetched # <<>>
    /\ fetched = scrapeRet

\* C13: when the request succeeded with a response of an unexpected shape,
\* the page of the locale is loaded and its result is returned.
C13_MisshapedFallsBack ==
    /\ RequestDone /\ RequestMisshaped => PageInvoked
    /\ fetchPc = "done" /\ RequestMisshaped => fetched = scrapeRet

\* C14: when the request succeeded with a well-formed response of which the
\* validity filter keeps nothing, the page is loaded; a call that returns
\* without loading the page returns at least one record.
C14_AllFilteredFallsBack ==
    /\ RequestDone /\ apiGot.kind \in WellFormed(fetchLocale) /\ StructuredKept = {}
           => PageInvoked
    /\ fetchPc = "done" /\ ~PageInvoked => fetched # <<>>

\* A call that returned the records of the structured source.
StructuredReturn ==
    fetchPc = "done" /\ ~PageInvoked /\ apiGot.kind \in WellFormed(fetchLocale)

\* C15 as stated: every record returned from the structured source has a
\* title that is not empty, not the placeholder and free of the locale's
\* noise keywords, and has status 'confirmed', in both locales.
C15_AllConfirmed ==
    StructuredReturn =>
        \A i \in 1..Len(fetched) :
            TitleValid(fetchLocale, fetched[i]) /\ fetched[i].status = "confirmed"

\* C15 amended: the title rule holds in both locales; status 'confirmed' holds
\* for the records of the Japan source, and the records of the China source
\* have a known time text instead.
C15_StructuredRecordsValid ==
    StructuredReturn =>
        \A i \in 1..Len(fetched) :
            /\ TitleValid(fetchLocale, fetched[i])
            /\ fetchLocale = "japan" => fetched[i].status = "confirmed"
            /\ fetchLocale = "china" => fetched[i].date # UnknownText

C15_Witness ==
    /\ StructuredReturn
    /\ fetchLocale = "japan"
    /\ Len(apiGot.events) = 2
    /\ apiGot.events[1].status = "cancelled"
    /\ Len(fetched) = 1
    /\ fetched[1].status = "confirmed"

\* The keywords the scraped records are to be free of.
ScrapeNoise ==
    {"shukujitsu", "kyujitsu", "shichigosan", "kinrokansha", "seijin", "kenkoku",
     "shunbun", "showa", "kenpo", "midori", "kodomo", "umi", "yama", "keiro",
     "bunka", "kinrokanshanohi", "tenno", "rili", "karenda"}
Clean(a) == (a.title \cup a.description) \cap ScrapeNoise = {}

\* C16: no record returned by fetchFromWebpage, for either page, has a noise
\* keyword in its title or description, so none is returned through the
\* fallback of either locale.
C16_ScrapedRecordsClean ==
    /\ \A i \in 1..Len(scrapeRet) : Clean(scrapeRet[i])
    /\ fetchPc = "done" /\ PageInvoked => \A i \in 1..Len(fetched) : Clean(fetched[i])

-----------------------------------------------------------------------------
(* The update cycle: claims C17 - C19 *)

\* The step in which call c receives an empty fetch while the list of its
\* locale holds events.
FailedFetchStep(c) ==
    /\ pc[c] = "fetch"
    /\ pc'[c] = "render"
    /\ newActivities'[c] = <<>>
    /\ activities[c[1]] # <<>>

ElementsOf(s) == {s[i] : i \in 1..Len(s)}

\* The picture shows events of the list and no placeholder.
ShowsEventsOf(image, acts) ==
    /\ image.shown # <<>>
    /\ ElementsOf(Untagged(image.shown)) \subseteq ElementsOf(acts)

\* C17 as stated: after a cycle in which the fetch gave nothing, the events
\* fetched before are still shown, and the time shown with them is the time
\* of the fetch that produced them.
C17_ShowsOriginalFetchTime ==
    [][\A c \in Calls :
          FailedFetchStep(c) =>
              /\ ShowsEventsOf(rendering'[c], activities[c[1]])
              /\ rendering'[c].time = fetchedAt[c[1]]]_vars

\* C17 amended: the events fetched before are still shown, and the time shown
\* with them is the time of the failed cycle, which the last-update time
\* advances to; it is never earlier than the time of the fetch that produced
\* the events.
C17_ShowsFailedCycleTime ==
    [][\A c \in Calls :
          FailedFetchStep(c) =>
              /\ activities'[c[1]] = activities[c[1]]
              /\ ShowsEventsOf(rendering'[c], activities[c[1]])
              /\ rendering'[c].time = now
              /\ lastUpdateTime'[c[1]] = now
              /\ fetchedAt'[c[1]] = fetchedAt[c[1]]
              /\ fetchedAt[c[1]] <= now]_vars

\* Events fetched at the start of the run are drawn, two hours later, by a
\* cycle whose fetch gave nothing.
C17_Witness ==
    \E c \in Calls :
        /\ pc[c] = "render"
        /\ newActivities[c] = <<>>
        /\ activities[c[1]] # <<>>
        /\ fetchedAt[c[1]] = StartOfRun
        /\ now > StartOfRun
        /\ rendering[c].time = now
        /\ ShowsEventsOf(rendering[c], activities[c[1]])

PlaceholderDrawn(image) == \E i \in 1..Len(image.shown) : image.shown[i].tag = "Notice"
NeverFetched(l) == fetchedAt[l] = 0 - 1

\* C18: the list of a locale is empty exactly as long as no fetch of the
\* locale has brought an event; a picture is drawn with the placeholder
\* only when the list is empty at that moment, and with events of the list
\* whenever the list holds any; a command answers 'no data' only when the
\* list is empty.
C18_PlaceholderOnlyWhenEmpty ==
    /\ [](\A l \in Locales : activities[l] = <<>> <=> NeverFetched(l))
    /\ [][\A c \in Calls :
             /\ (pc[c] = "fetch" /\ pc'[c] = "render") =>
                   /\ PlaceholderDrawn(rendering'[c]) => activities'[c[1]] = <<>>
                   /\ activities'[c[1]] # <<>> =>
                         /\ ~PlaceholderDrawn(rendering'[c])
                         /\ ShowsEventsOf(rendering'[c], activities'[c[1]])
             /\ (c[2] = "command" /\ pc[c] = "render" /\ pc'[c] = "idle") =>
                   (commandReply(cachedImageBuffer'[c[1]], activities'[c[1]],
                                 maxActivities').kind = "noData"
                       => activities'[c[1]] = <<>>)]_vars

\* The rendering of a command has failed while the list holds events (the
\* command answers with the text listing), the other locale has its
\* placeholder picture.
C18_Witness ==
    \E c \in Calls, l \in Locales :
        /\ c[2] = "command"
        /\ pc[c] = "idle"
        /\ started > 0
        /\ cachedImageBuffer[c[1]] = NoImage
        /\ activities[c[1]] # <<>>
        /\ l # c[1]
        /\ activities[l] = <<>>
        /\ cachedImageBuffer[l] # NoImage
        /\ PlaceholderDrawn(cachedImageBuffer[l])

\* The step in which the rendering of call c fails.
RenderFailureStep(c) ==
    /\ pc[c] = "render"
    /\ pc'[c] # "render"
    /\ cachedImageBuffer'[c[1]] = NoImage

\* C19: when the rendering fails, the list and the last-update time of the
\* locale stay as the cycle left them, and the update function returns.
C19_RenderFailureKeepsCache ==
    [][\A c \in Calls :
          RenderFailureStep(c) =>
              /\ activities' = activities
              /\ lastUpdateTime' = lastUpdateTime
              /\ pc'[c] \in {"idle", "done"}]_vars

\* The initial load of a locale has ended with a failed rendering; the list
\* and the update time it assigned are in place.
C19_Witness ==
    \E l \in Locales :
        /\ pc[<<l, "initial">>] = "done"
        /\ pc[<<l, "timer">>] = "idle"
        /\ pc[<<l, "command">>] = "idle"
        /\ started = 0
        /\ cachedImageBuffer[l] = NoImage
        /\ Len(activities[l]) = 2
        /\ lastUpdateTime[l] = StartOfRun

-----------------------------------------------------------------------------
(* The timers: claim C20 *)

\* C20: no callback of a timer and no call of update<Locale>Activities ends
\* with an uncaught rejection, whatever the fetch, the rendering and the
\* sends to the bots end with; a callback that has finished leaves its timer
\* able to fire again; and the list of a locale changes only in the step in
\* which a call receives a non-empty fetch, to that fetch.
C20_TimerSurvivesFailures ==
    /\ [](\A l \in Locales :
             /\ tick[l] \in {"none", "waiting", "updating", "sending"}
             /\ pc[<<l, "timer">>] \in {"idle", "fetch", "render"}
             /\ (tick[l] = "waiting" /\ started < MaxFires) => ENABLED TimerFires(l))
    /\ [][\A l \in Locales :
             activities'[l] # activities[l] =>
                 \E c \in Calls :
                     /\ c[1] = l
                     /\ pc[c] = "fetch"
                     /\ pc'[c] = "render"
                     /\ newActivities'[c] # <<>>
                     /\ activities'[l] = newActivities'[c]]_vars

\* The timer of a locale has fired again after a callback whose send to the
\* first bot was rejected and whose send to the second bot went through, and
\* this firing's fetch has come back empty with the list in place.
C20_Witness ==
    \E l \in Locales :
        /\ tick[l] = "updating"
        /\ sent[l] = <<FALSE, TRUE>>
        /\ pc[<<l, "timer">>] = "render"
        /\ newActivities[<<l, "timer">>] = <<>>
        /\ activities[l] # <<>>

-----------------------------------------------------------------------------
(* Overlapping cycles and the two locales: claims C21, C22 *)

InFlight(c) == pc[c] \in {"fetch", "render"}
CallsOf(l) == {c \in Calls : c[1] = l}

\* C21: for each locale at most one update cycle is in flight at any time.
C21_SingleFlight ==
    \A l \in Locales : Cardinality({c \in CallsOf(l) : InFlight(c)}) <= 1

\* C22: a step of an update cycle of one locale leaves the list, the
\* last-update time and the cached picture of the other locale as they were.
C22_LocalesIndependent ==
    [][\A c \in Calls :
          pc'[c] # pc[c] =>
              \A l \in Locales \ {c[1]} :
                  /\ activities'[l] = activities[l]
                  /\ lastUpdateTime'[l] = lastUpdateTime[l]
                  /\ cachedImageBuffer'[l] = cachedImageBuffer[l]]_vars

\* The initial load of one locale has cached its events and its picture
\* while the initial load of the other locale is still rendering an empty
\* fetch, at a later time.
C22_Witness ==
    \E l, k \in Locales :
        /\ l # k
        /\ pc[<<l, "initial">>] = "done"
        /\ Len(activities[l]) = 2
        /\ cachedImageBuffer[l] # NoImage
        /\ lastUpdateTime[l] = StartOfRun
        /\ pc[<<k, "initial">>] = "render"
        /\ activities[k] = <<>>
        /\ lastUpdateTime[k] > StartOfRun

-----------------------------------------------------------------------------
(* Repeated cycles: claim C23 *)

\* C23: when two cycles of a locale follow each other without overlapping
\* and their fetches return the same result, the list after the second
\* cycle's fetch, and after the cycle, is the list the first cycle left.
C23_SameFetchSameList ==
    (repeat.cycles = 2 /\ pc[RepeatCall] # "fetch")
        => activities[repeat.locale] = repeat.afterFirst

\* Both cycles have run on a one-entry result, the second one at a later
\* time, and the list is that result.
C23_Witness ==
    /\ repeat.cycles = 2
    /\ pc[RepeatCall] = "idle"
    /\ Len(repeat.result) = 1
    /\ activities[repeat.locale] = repeat.result
    /\ repeat.afterFirst = repeat.result
    /\ fetchedAt[repeat.locale] > StartOfRun

-----------------------------------------------------------------------------
(* The timers: claims C24, C25 *)

\* C24: the update of each locale is re-run by a recurring timer whenever the
\* plugin runs, whether or not autoPush is enabled for the locale: a locale
\* whose callback is not running can have its timer fire.
C24_UpdateTimerAlwaysSet ==
    \A l \in Locales :
        (tick[l] \notin {"updating", "sending"} /\ started < MaxFires)
            => ENABLED TimerFires(l)

PushDue(l) == cachedImageBuffer[l] # NoImage /\ autoPush.target

\* C25: the callback of a timer sends only after its update has returned,
\* and then if and only if there is a picture and a target; it sends to the
\* bots in turn, a rejected send not stopping it, so that a finished push has
\* tried every bot; with no picture or no target it sends nothing.
C25_PushAfterUpdate ==
    /\ [](\A l \in Locales :
             /\ tick[l] = "sending" =>
                   /\ pc[<<l, "timer">>] = "idle"
                   /\ PushDue(l)
                   /\ Len(sent[l]) = bot[l] - 1
                   /\ bot[l] \in 1..autoPush.bots
             /\ tick[l] = "updating" /\ pc[<<l, "timer">>] # "idle" => bot[l] = 0
             /\ (tick[l] = "waiting" /\ sent[l] # <<>>) => Len(sent[l]) = autoPush.bots)
    /\ [][\A l \in Locales :
             /\ (tick[l] = "updating" /\ tick'[l] # "updating") =>
                   /\ pc[<<l, "timer">>] = "idle"
                   /\ tick'[l] = "sending" <=> (PushDue(l) /\ autoPush.bots > 0)
                   /\ tick'[l] # "sending" => (tick'[l] = "waiting" /\ sent'[l] = sent[l])
             /\ sent'[l] # sent[l] => tick'[l] = "sending" \/ tick[l] = "sending"]_vars

\* A push to two bots has ended with the first send rejected and the second
\* one gone through.
C25_Witness ==
    \E l \in Locales :
        /\ tick[l] = "waiting"
        /\ autoPush.bots = 2
        /\ autoPush.target
        /\ sent[l] = <<FALSE, TRUE>>
        /\ cachedImageBuffer[l] # NoImage

-----------------------------------------------------------------------------
(* The classifier: claims C26 - C28 *)

ShownAs(i, tag) ==
    \E j \in Shown : classified[j] = Tagged(activitiesArg[i], tag)

\* C26: an entry whose time text is an absolute range is never tagged
\* Previous; one whose end lies before now is handled as unparseable: it is
\* shown, if at all, only in the listing of the whole input.
C26_AbsoluteNeverPrevious ==
    Classified =>
        /\ \A j \in Shown : classified[j].tag = "Previous" => classified[j].date.dt = NoMatch
        /\ \A i \in Positions :
              (IsAbs(activitiesArg[i]) /\ AbsEnd(activitiesArg[i]) < now) =>
                  \A j \in Shown :
                      Untagged(classified)[j] = activitiesArg[i] => classified[j].tag = "Listing"

\* An absolute range that ended yesterday stands before a clock range that
\* ended today; the clock range is the Previous entry.
C26_Witness ==
    /\ Classified
    /\ Len(activitiesArg) = 2
    /\ IsAbs(activitiesArg[1])
    /\ AbsEnd(activitiesArg[1]) < now
    /\ WindowPast(activitiesArg[2], now)
    /\ classified = <<Tagged(activitiesArg[2], "Previous")>>

RawClockEnd(a) == 60 * a.date.hm[3] + a.date.hm[4]
CrossesMidnight(a) == IsClock(a) /\ RawClockEnd(a) <= ClockStart(a)

\* C27: a clock range that crosses midnight is tagged Ongoing at every minute
\* of the day inside its window taken modulo 1440: from its start on, and up
\* to its end of the following morning.
C27_WrapOngoingModulo ==
    Classified =>
        \A i \in Positions :
            LET a == activitiesArg[i]
            IN  (/\ CrossesMidnight(a)
                 /\ \/ MinuteOfDay(now) >= ClockStart(a)
                    \/ MinuteOfDay(now) <= RawClockEnd(a))
                    => ShownAs(i, "Ongoing")

ExactlyOne(a, b, c) == (a /\ ~b /\ ~c) \/ (~a /\ b /\ ~c) \/ (~a /\ ~b /\ c)

\* C28: an entry with a clock range is in exactly one of the three sets of
\* the classifier, ongoing (start <= m <= end), future (start > m) and past
\* (end < m); a list with such an entry is never answered with the listing
\* tier, with nothing, or with the placeholder.
C28_ClockRangePartition ==
    Classified =>
        /\ \A i \in Positions :
              LET a == activitiesArg[i]
              IN  IsClock(a) =>
                      /\ ongoingFilter(a, now) <=> WindowOngoing(a, now)
                      /\ futureFilter(a, now) <=> WindowFuture(a, now)
                      /\ pastFilter(a, now) <=> WindowPast(a, now)
                      /\ ExactlyOne(ongoingFilter(a, now), futureFilter(a, now),
                                    pastFilter(a, now))
        /\ (\E i \in Positions : IsClock(activitiesArg[i])) =>
              /\ classified # <<>>
              /\ \A j \in Shown : classified[j].tag \in {"Ongoing", "Previous", "Next"}
              /\ \A j \in 1..Len(limited) : limited[j].tag # "Notice"

\* An overnight range between two entries without a time, at noon: it is in
\* the future set only and is the Next entry.
C28_Witness ==
    /\ Classified
    /\ Len(activitiesArg) = 3
    /\ IsUnparseable(activitiesArg[1])
    /\ activitiesArg[2].date = BareText(23, 0, 1, 0)
    /\ IsUnparseable(activitiesArg[3])
    /\ MinuteOfDay(now) = 720
    /\ classified = <<Tagged(activitiesArg[2], "Next")>>

-----------------------------------------------------------------------------
(* Overlapping cycles: claims C29, C30 *)

\* C29: the list of a locale is never replaced by the result of a fetch that
\* started before the fetch whose result is cached.  The fetch of the initial
\* load starts before every other fetch of its locale, so when it returns
\* while the list already holds events, it must leave the list as it is.
C29_NoOlderFetchOverwrites ==
    [][\A l \in Locales :
          (/\ pc[<<l, "initial">>] = "fetch"
           /\ pc'[<<l, "initial">>] = "render"
           /\ activities[l] # <<>>)
              => activities'[l] = activities[l]]_vars

Idle(l) == \A c \in CallsOf(l) : ~InFlight(c)

\* C30: whenever no cycle of a locale is in flight, the cached picture of the
\* locale is null or the picture of the locale's list and last-update time
\* as they are now.
C30_PictureMatchesList ==
    \A l \in Locales :
        Idle(l) =>
            \/ cachedImageBuffer[l] = NoImage
            \/ cachedImageBuffer[l]
                 = Image(limitedActivities(activities[l], lastUpdateTime[l], maxActivities),
                         lastUpdateTime[l])

\* C31: once a locale's cached event list is non-empty it stays non-empty:
\* no step of any update cycle (a fetch that brings events, an empty or
\* failed fetch, a rendering that resolves or rejects) empties it.
C31_NonEmptyStaysNonEmpty ==
    [][\A l \in Locales : Len(activities[l]) > 0 => Len(activities'[l]) > 0]_vars

\* A list fetched earlier is still cached after a later cycle whose fetch
\* was empty and whose rendering failed.
C31_Witness ==
    \E l \in Locales :
        /\ Len(activities[l]) > 0
        /\ fetchedAt[l] # NoTime
        /\ fetchedAt[l] < lastUpdateTime[l]
        /\ cachedImageBuffer[l] = NoImage
        /\ \A c \in Calls : c[1] = l => pc[c] \in {"idle", "done"}

\* The fallback step of lines 552-558 was entered: something is shown and
\* none of it is an ongoing, a previous or a next activity.
FallbackEntered ==
    /\ Len(classified) > 0
    /\ \A j \in Shown : classified[j].tag \notin {"Ongoing", "Previous", "Next"}

\* C32: no output of getCurrentOrNearbyActivities carries the tag Upcoming;
\* the fallback step is entered only when the list has neither a past nor a
\* future entry, so its Upcoming branch never runs and what it returns is
\* the listing.
C32_NeverUpcoming ==
    Classified =>
        /\ \A j \in Shown : classified[j].tag # "Upcoming"
        /\ FallbackEntered =>
              /\ Len(future(activitiesArg, now)) = 0
              /\ Len(past(activitiesArg, now)) = 0
              /\ \A j \in Shown : classified[j].tag = "Listing"

\* The fallback was entered on a list of two entries, and listed them.
C32_Witness ==
    /\ Classified
    /\ FallbackEntered
    /\ Len(activitiesArg) = 2
    /\ Len(classified) = Min(2, maxActivities)
    /\ Len(future(activitiesArg, now)) = 0

\* The events of the answer that an entry shown was built from.
EventsOf(entry) ==
    {i \in 1..Len(apiGot.events) :
        (IF apiGot.events[i].title = NoText THEN UnnamedTitle ELSE apiGot.events[i].title)
            = entry.title}

\* C33: an event of the Japan structured source is tagged Ongoing only when
\* the current instant lies between its start and its end instant; an event
\* whose start and end lie on another calendar day is never tagged Ongoing.
C33_OngoingOnlyWithinInstants ==
    (fetchLocale = "japan" /\ fetchPc = "done" /\ Classified) =>
        \A j \in Shown :
            classified[j].tag = "Ongoing" =>
                \A i \in EventsOf(classified[j]) :
                    /\ apiGot.events[i].start <= now
                    /\ now <= apiGot.events[i].end

\* C34: every page opened by fetchFromWebpage or generateCalendarImage is
\* closed by the time the function returns or fails, on every path: when no
\* call is under way the number of open pages is what it was before the
\* calls, zero.
C34_PagesClosed == browser.at = 0 => browser.open = 0

\* The entry is a copy of an element of the list with a tag added.
TaggedCopyOf(entry, list) ==
    \E i \in 1..Len(list) : entry = Tagged(list[i], entry.tag)

\* C35: classification and rendering never modify the cached list: the step
\* of a cycle that classifies the list leaves it with the length, order and
\* elements the replace-on-non-empty rule gave it, what is drawn are tagged
\* copies of its elements (or the placeholder), and no event of either
\* locale's cache ever carries a tag.
C35_CacheNeverTagged ==
    /\ [](\A l \in Locales : \A i \in 1..Len(activities[l]) :
              DOMAIN activities[l][i] = {"title", "date"})
    /\ [][\A c \in Calls :
             (pc[c] = "fetch" /\ pc'[c] = "render") =>
                 LET input == replaceOnNonEmpty(activities[c[1]], newActivities'[c])
                 IN  /\ activities'[c[1]] = input
                     /\ \A j \in 1..Len(rendering'[c].shown) :
                           \/ rendering'[c].shown[j] = Placeholder
                           \/ TaggedCopyOf(rendering'[c].shown[j], input)]_vars

\* A cached list of two events has been classified and drawn, its first
\* event as the ongoing one, and is cached as it was fetched.
C35_Witness ==
    \E l \in Locales :
        /\ cachedImageBuffer[l] # NoImage
        /\ Len(cachedImageBuffer[l].shown) = 1
        /\ cachedImageBuffer[l].shown[1].tag = "Ongoing"
        /\ Len(activities[l]) = 2
        /\ cachedImageBuffer[l].shown[1] = Tagged(activities[l][1], "Ongoing")
        /\ activities[l] \in FetchResults

\* C35, for the classifier called on its own: the call leaves the list it
\* was given as it was, and what it returns are tagged copies.
C35_InputUntouched ==
    [][(phase = "ready" /\ phase' = "done") =>
          /\ activitiesArg' = activitiesArg
          /\ \A j \in 1..Len(classified') : TaggedCopyOf(classified'[j], activitiesArg)]_vars

\* C36: a per-locale command always runs the locale's update cycle to
\* completion before it replies, and replies with the cached picture, else
\* with the listing of the first maxActivities cached events, else with the
\* 'no data' text.
C36_AlwaysUpdatesThenReplies ==
    command.at = "replied" =>
        /\ command.updated
        /\ command.reply.kind \in {"image", "text", "noData"}

\* C36, for a command whose notice was sent: the reply is made once the
\* update cycle of the command has returned and is chosen from the cache as
\* it is then; a picture is never the reply while the cached picture is null.
C36_RepliesFromCache ==
    [][(command.at = "update" /\ command'.at = "replied") =>
          LET l == command.locale
              reply == command'.reply
          IN  /\ pc[<<l, "command">>] = "idle"
              /\ cachedImageBuffer[l] # NoImage =>
                    reply = [kind |-> "image", shown |-> cachedImageBuffer[l].shown]
              /\ (cachedImageBuffer[l] = NoImage /\ Len(activities[l]) > 0) =>
                    reply = [kind |-> "text", shown |-> Slice(activities[l], maxActivities)]
              /\ (cachedImageBuffer[l] = NoImage /\ Len(activities[l]) = 0) =>
                    reply = [kind |-> "noData", shown |-> <<>>]]_vars

\* C37: in the annotated variant, when the fetch of an update returns zero
\* events (the scraping having failed or found nothing), the step that
\* receives the result leaves the locale's cached list as it was.
C37_VariantKeepsStaleCache ==
    [][\A c \in VariantCalls :
          (pc[c] = "fetch" /\ pc'[c] = "render" /\ newActivities'[c] = <<>>)
              => activities'[c[1]] = activities[c[1]]]_vars

=============================================================================
